---- MODULE Spec2Model ----
(***************************************************************************)
(* The resolution engine of omniconfig: node building, dependency graph,   *)
(* topological scheduling, reference resolution with override merge and    *)
(* factory application.                                                    *)
(*                                                                         *)
(* Python strings are modelled as sequences of one-character strings so    *)
(* that str.startswith, str(int) and int(str) are computed, not assumed.   *)
(* Python objects live in a heap (a sequence of node records); a node is   *)
(* identified by its index, so "is" is equality of indices.  The alias     *)
(* sets are objects of their own (asets), because copy_with_update hands   *)
(* the override node's set object to the merged node.                      *)
(***************************************************************************)
EXTENDS Integers, Sequences, FiniteSets, TLC

VARIABLES
    pc,            \* "new" | "run" | "done" | "error" | "unit" | "unit_done"
                   \* | "nodes" | "nodes_done" | "tree" | "graph" | "graph_done"
                   \* | "types"
    data,          \* the merged raw data handed to ResolutionState
    heap,          \* the ResolutionNode objects, by identity
    asets,         \* the alias set objects, by identity
    root,          \* ResolutionState.root (0 before the tree is built)
    names,         \* DependencyGraph.names : path -> name
    nodes,         \* DependencyGraph.nodes : name -> node
    order,         \* insertion order of DependencyGraph.nodes
    dependencies,  \* DependencyGraph.dependencies
    dependents,    \* DependencyGraph.dependents
    queue,         \* DependencyGraph.queue
    idx,           \* position of the loop "for node in queue"
    err,           \* the exception that ended the run ("" if none)
    call,          \* the arguments of the last call made on hand-made objects
    registries,    \* TypeSystem._registry of each TypeSystem instance
    type_system    \* the TypeSystem instance the caller works with

vars == <<pc, data, heap, asets, root, names, nodes, order,
          dependencies, dependents, queue, idx, err, call, registries, type_system>>

(***************************************************************************)
(* Bounds of the model.                                                    *)
(***************************************************************************)
MaxList == 2       \* longest raw list in the input
MaxChains == 2     \* longest type_chains list of a hand-made node

(***************************************************************************)
(* Strings.                                                                *)
(***************************************************************************)
REFERENCE_SEPARATOR == <<":", ":">>

StartsWith(s, p) == Len(p) <= Len(s) /\ SubSeq(s, 1, Len(p)) = p

is_reference_format(value) == StartsWith(value, REFERENCE_SEPARATOR)

Digits == <<"0", "1", "2", "3", "4", "5", "6", "7", "8", "9">>

RECURSIVE IntToStr(_)
IntToStr(n) ==
    IF n < 10 THEN <<Digits[n + 1]>>
    ELSE IntToStr(n \div 10) \o <<Digits[(n % 10) + 1]>>

IsDigitStr(s) == Len(s) > 0 /\ \A i \in 1..Len(s) : \E d \in 1..10 : Digits[d] = s[i]

DigitVal(c) == (CHOOSE d \in 1..10 : Digits[d] = c) - 1

RECURSIVE StrToInt(_)
StrToInt(s) ==
    IF Len(s) = 1 THEN DigitVal(s[1])
    ELSE 10 * StrToInt(SubSeq(s, 1, Len(s) - 1)) + DigitVal(s[Len(s)])

(***************************************************************************)
(* Path segments: a str key or an int index.                               *)
(***************************************************************************)
SK(s) == [k |-> "str", v |-> s]
SI(i) == [k |-> "int", v |-> i]

SegStr(seg) == IF seg.k = "int" THEN IntToStr(seg.v) ELSE seg.v

RECURSIVE JoinSegs(_)
JoinSegs(path) ==
    IF Len(path) = 1 THEN SegStr(path[1])
    ELSE SegStr(path[1]) \o REFERENCE_SEPARATOR \o JoinSegs(Tail(path))

path_to_reference(path) ==
    IF path = <<>> THEN <<>> ELSE REFERENCE_SEPARATOR \o JoinSegs(path)

REFERENCE_KEY == SK(<<"_", "r", "e", "f", "e", "r", "e", "n", "c", "e", "_">>)
OVERWRITE_KEY == SK(<<"_", "o", "v", "e", "r", "w", "r", "i", "t", "e", "_">>)
Reserved == {REFERENCE_KEY, OVERWRITE_KEY}

(***************************************************************************)
(* Raw data and factoried values: tagged records [k, v].                   *)
(*   int, str, none : primitives                                           *)
(*   map  : v is a sequence of <<key, data>> pairs in insertion order      *)
(*   list : v is a sequence of data                                        *)
(*   dict : a materialized dict, v is a function key -> value              *)
(*   seq  : a materialized list, v is a sequence of values                 *)
(*   dc   : a dataclass instance, v is [cls, f]                            *)
(***************************************************************************)
DInt(n) == [k |-> "int", v |-> n]
DStr(s) == [k |-> "str", v |-> s]
DNone == [k |-> "none", v |-> 0]
DMap(items) == [k |-> "map", v |-> items]
DList(items) == [k |-> "list", v |-> items]
MISSING == [k |-> "MISSING", v |-> 0]

VDict(f) == [k |-> "dict", v |-> f]
VList(s) == [k |-> "seq", v |-> s]
VInst(cls, f) == [k |-> "dc", v |-> [cls |-> cls, f |-> f]]

HasKey(items, key) == \E i \in 1..Len(items) : items[i][1] = key
Lookup(items, key) == items[CHOOSE i \in 1..Len(items) : items[i][1] = key][2]

SeqToSet(s) == {s[i] : i \in 1..Len(s)}
IndexOf(s, x) == CHOOSE i \in 1..Len(s) : s[i] = x

RECURSIVE Strip(_)
Strip(items) ==
    IF items = <<>> THEN <<>>
    ELSE IF items[1][1] \in Reserved THEN Strip(Tail(items))
    ELSE <<items[1]>> \o Strip(Tail(items))

(***************************************************************************)
(* Type hints.  A type hint is a record [args, cat, name]:                 *)
(*   prim  : bool, int, float, str, NoneType                               *)
(*   any   : typing.Any                                                    *)
(*   dc    : a dataclass                                                   *)
(*   list  : List[args[1]]                                                 *)
(*   dict  : Dict[args[1], args[2]]                                        *)
(*   union : Union[args]                                                   *)
(*   class : any other class (custom when registered)                      *)
(***************************************************************************)
Ty(cat, name, args) == [args |-> args, cat |-> cat, name |-> name]

T_int == Ty("prim", "int", <<>>)
T_str == Ty("prim", "str", <<>>)
T_bool == Ty("prim", "bool", <<>>)
T_None == Ty("prim", "NoneType", <<>>)
T_Any == Ty("any", "Any", <<>>)
T_Sub == Ty("dc", "Sub", <<>>)
T_Conf == Ty("dc", "Conf", <<>>)
T_Path == Ty("class", "Path", <<>>)
T_ListInt == Ty("list", "List", <<T_int>>)
T_OptSub == Ty("union", "Union", <<T_Sub, T_None>>)
T_PConf == Ty("dc", "PConf", <<>>)
T_OptPath == Ty("union", "Union", <<T_Path, T_None>>)

(* TypeInfo.custom: None, or a CustomTypeInfo(type_hint, factory, reducer). *)
(* A callable is named; the classes Local1 and Local2 are two classes made *)
(* by one class factory, so that str() of both is the same text.           *)
NoCustom == [on |-> FALSE, type_hint |-> T_Any, factory |-> "", reducer |-> ""]
CustomInfo(hint, factory, reducer) ==
    [on |-> TRUE, type_hint |-> hint, factory |-> factory, reducer |-> reducer]
Custom(hint, factory) == CustomInfo(hint, factory, "str")

Classes == {"Path", "Local1", "Local2"}
Callables == Classes \cup {"str"}

(* str(callable) *)
StrOfCallable(f) == IF f \in {"Local1", "Local2"} THEN "<class 'Local'>" ELSE f

TypeInfo(t) == [type_ |-> t, custom |-> NoCustom]
CustomTypeInfo(t, hint, factory) == [type_ |-> t, custom |-> Custom(hint, factory)]

type_hint(ti) == IF ti.custom.on THEN ti.custom.type_hint ELSE ti.type_

(* The schemas the caller declares.  Sub and Conf mirror the test schemas  *)
(* SimpleConfig {name: str, value: int = 42} and MainConfig; PConf is a    *)
(* schema with one optional field of a custom type, {p: Optional[Path]}.   *)
F_n == <<"n">>
F_v == <<"v">>
F_s == <<"s">>
F_l == <<"l">>
F_p == <<"p">>

Field(name, type, required, default) ==
    [name |-> name, type |-> type, required |-> required, default |-> default]

Fields(cls) ==
    IF cls = T_Sub THEN
        << Field(F_n, T_str, TRUE, MISSING),
           Field(F_v, T_int, FALSE, DInt(0)) >>
    ELSE IF cls = T_Conf THEN
        << Field(F_n, T_str, TRUE, MISSING),
           Field(F_v, T_int, FALSE, DInt(0)),
           Field(F_s, T_OptSub, FALSE, DNone),
           Field(F_l, T_ListInt, FALSE, VList(<<>>)) >>
    ELSE IF cls = T_PConf THEN
        << Field(F_p, T_OptPath, FALSE, DNone) >>
    ELSE <<>>

is_dataclass(t) == t.cat = "dc"
is_primitive_type(t) == t.cat = "prim"
is_container_type(t) == t.cat \in {"list", "dict"}
is_union_type(t) == t.cat = "union"

(* TypeSystem._registry of the global instance: Path is registered with    *)
(* type_hint str, as in the custom scalar scenario.                        *)
GlobalRegistry == [t \in {T_Path} |-> CustomTypeInfo(T_Path, T_str, "Path")]

(* TypeSystem.register: returns [err, reg]. *)
register(reg, type_, hint, factory, reducer) ==
    LET refuse == [err |-> "TypeRegistrationError", reg |-> reg] IN
    IF is_primitive_type(type_) THEN refuse
    ELSE IF is_dataclass(type_) THEN refuse
    ELSE IF is_container_type(type_) THEN refuse
    ELSE IF is_union_type(type_) THEN refuse
    ELSE IF factory \notin Callables THEN refuse
    ELSE IF reducer \notin Callables THEN refuse
    ELSE IF type_ \in DOMAIN reg THEN
        IF \/ ~reg[type_].custom.on
           \/ reg[type_].custom.type_hint # hint
           \/ StrOfCallable(reg[type_].custom.factory) # StrOfCallable(factory)
           \/ StrOfCallable(reg[type_].custom.reducer) # StrOfCallable(reducer)
        THEN refuse
        ELSE [err |-> "", reg |-> reg]
    ELSE [err |-> "",
          reg |-> (type_ :> [type_ |-> type_, custom |-> CustomInfo(hint, factory, reducer)])
                  @@ reg]

retrieve(reg, t, default) == IF t \in DOMAIN reg THEN reg[t] ELSE default

classify(reg, t) ==
    IF t = T_None THEN "PRIMITIVE"
    ELSE IF t \in DOMAIN reg THEN "CUSTOM"
    ELSE IF is_union_type(t) THEN "UNION"
    ELSE IF is_container_type(t) THEN "CONTAINER"
    ELSE IF is_dataclass(t) THEN "DATACLASS"
    ELSE IF is_primitive_type(t) THEN "PRIMITIVE"
    ELSE "CUSTOM"

Ok(x) == [err |-> "", val |-> x]
Fail(e) == [err |-> e, val |-> <<>>]

(* flatten: one chain per terminal branch; ValueError for an unregistered  *)
(* custom type.                                                            *)
RECURSIVE flatten_dfs(_, _, _, _)
RECURSIVE flatten_args(_, _, _, _)
flatten_dfs(reg, hint, chain, chains) ==
    LET category == classify(reg, hint) IN
    IF category = "CUSTOM" THEN
        IF hint \notin DOMAIN reg THEN Fail("ValueError")
        ELSE flatten_dfs(reg, type_hint(reg[hint]), Append(chain, reg[hint]), chains)
    ELSE IF category = "UNION" THEN flatten_args(reg, hint.args, chain, chains)
    ELSE Ok(Append(chains, Append(chain, TypeInfo(hint))))

flatten_args(reg, args, chain, chains) ==
    IF args = <<>> THEN Ok(chains)
    ELSE LET r == flatten_dfs(reg, args[1], chain, chains) IN
         IF r.err # "" THEN r ELSE flatten_args(reg, Tail(args), chain, r.val)

flatten(reg, type_info) ==
    IF ~type_info.custom.on THEN flatten_dfs(reg, type_info.type_, <<>>, <<>>)
    ELSE flatten_dfs(reg, type_info.custom.type_hint, <<type_info>>, <<>>)

FieldNames(cls) == {Fields(cls)[i].name : i \in 1..Len(Fields(cls))}
FieldOf(cls, name) == Fields(cls)[CHOOSE i \in 1..Len(Fields(cls)) : Fields(cls)[i].name = name]

(* Union[ts] as Python normalises it: duplicates dropped, a single member  *)
(* is the member itself.                                                   *)
RECURSIVE Dedup(_)
Dedup(s) ==
    IF s = <<>> THEN <<>>
    ELSE LET r == Dedup(SubSeq(s, 1, Len(s) - 1)) IN
         IF s[Len(s)] \in SeqToSet(r) THEN r ELSE Append(r, s[Len(s)])

MakeUnion(ts) ==
    LET d == Dedup(ts) IN IF Len(d) = 1 THEN d[1] ELSE Ty("union", "Union", d)

RECURSIVE extract_container_element_type(_, _, _)
RECURSIVE extract_union(_, _, _)
extract_container_element_type(reg, container_type, key) ==
    IF container_type = T_Any THEN T_Any
    ELSE IF container_type \in DOMAIN reg
        THEN extract_container_element_type(reg, type_hint(reg[container_type]), key)
    ELSE IF is_dataclass(container_type) THEN
        IF key.k = "str" /\ key.v \in FieldNames(container_type)
        THEN FieldOf(container_type, key.v).type ELSE T_Any
    ELSE IF is_union_type(container_type) THEN
        LET ets == extract_union(reg, container_type.args, key) IN
        IF ets # <<>> /\ T_Any \notin SeqToSet(ets) THEN MakeUnion(ets) ELSE T_Any
    ELSE IF container_type.cat = "list" THEN
        IF container_type.args # <<>> THEN container_type.args[1] ELSE T_Any
    ELSE IF container_type.cat = "dict" THEN
        IF Len(container_type.args) > 1 THEN container_type.args[2] ELSE T_Any
    ELSE T_Any

extract_union(reg, args, key) ==
    IF args = <<>> THEN <<>>
    ELSE IF args[1] = T_None THEN extract_union(reg, Tail(args), key)
    ELSE <<extract_container_element_type(reg, args[1], key)>>
         \o extract_union(reg, Tail(args), key)

(* build_type_infos: path -> TypeInfo for every field reachable through    *)
(* fields whose type has exactly one dataclass in its buckets.             *)
RECURSIVE DataclassBucket(_, _)
RECURSIVE DataclassBucketArgs(_, _)
DataclassBucket(reg, hint) ==
    LET category == classify(reg, hint) IN
    IF category = "CUSTOM" THEN
        IF hint \in DOMAIN reg THEN DataclassBucket(reg, type_hint(reg[hint])) ELSE {}
    ELSE IF category = "UNION" THEN DataclassBucketArgs(reg, hint.args)
    ELSE IF category = "DATACLASS" THEN {hint}
    ELSE {}

DataclassBucketArgs(reg, args) ==
    IF args = <<>> THEN {}
    ELSE DataclassBucket(reg, args[1]) \cup DataclassBucketArgs(reg, Tail(args))

(* classify_into_buckets raises ValueError for a type hint that reaches a  *)
(* custom type the registry does not hold.                                 *)
RECURSIVE Unregistered(_, _)
RECURSIVE UnregisteredArgs(_, _)
Unregistered(reg, hint) ==
    LET category == classify(reg, hint) IN
    IF category = "CUSTOM" THEN
        IF hint \in DOMAIN reg THEN Unregistered(reg, type_hint(reg[hint])) ELSE TRUE
    ELSE IF category = "UNION" THEN UnregisteredArgs(reg, hint.args)
    ELSE FALSE

UnregisteredArgs(reg, args) ==
    IF args = <<>> THEN FALSE
    ELSE Unregistered(reg, args[1]) \/ UnregisteredArgs(reg, Tail(args))

(* scan: the exception raised while scanning the dataclass cls and the     *)
(* dataclasses nested in its fields ("" if none).                          *)
RECURSIVE scan(_, _)
RECURSIVE scan_fields(_, _, _)
RECURSIVE scan_all(_, _)
scan(reg, cls) == scan_fields(reg, cls, 1)

scan_fields(reg, cls, i) ==
    IF i > Len(Fields(cls)) THEN ""
    ELSE LET hint == type_hint(retrieve(reg, Fields(cls)[i].type, TypeInfo(Fields(cls)[i].type)))
             Rest(e) == IF e # "" THEN e ELSE scan_fields(reg, cls, i + 1)
         IN IF Unregistered(reg, hint) THEN "ValueError"
            ELSE Rest(scan_all(reg, DataclassBucket(reg, hint)))

scan_all(reg, classes) ==
    IF classes = {} THEN ""
    ELSE LET c == CHOOSE x \in classes : TRUE
             Rest(e) == IF e # "" THEN e ELSE scan_all(reg, classes \ {c})
         IN Rest(scan(reg, c))

RECURSIVE build_type_infos(_, _, _)
RECURSIVE build_type_infos_fields(_, _, _, _)
build_type_infos(reg, cls, path) ==
    IF ~is_dataclass(cls) THEN {} ELSE build_type_infos_fields(reg, cls, path, 1)

build_type_infos_fields(reg, cls, path, i) ==
    IF i > Len(Fields(cls)) THEN {}
    ELSE LET f == Fields(cls)[i]
             field_path == Append(path, SK(f.name))
             type_info == retrieve(reg, f.type, TypeInfo(f.type))
             bucket == DataclassBucket(reg, type_hint(type_info))
         IN {<<field_path, type_info>>}
            \cup (IF Cardinality(bucket) = 1
                  THEN build_type_infos(reg, CHOOSE c \in bucket : TRUE, field_path)
                  ELSE {})
            \cup build_type_infos_fields(reg, cls, path, i + 1)

(* try_prune_type_chains.  isinstance(value, Any) and issubclass of a     *)
(* generic alias raise TypeError.                                          *)
Leaf(chain) == chain[Len(chain)].type_

RequiredFields(cls) ==
    {Fields(cls)[i].name : i \in {j \in 1..Len(Fields(cls)) : Fields(cls)[j].required}}

DataKeys(d) == {d.v[i][1] : i \in 1..Len(d.v)}

PrimIsInstance(d, t) ==
    \/ d.k = "int" /\ t = T_int
    \/ d.k = "str" /\ t = T_str
    \/ d.k = "none" /\ t = T_None

try_prune_type_chains(d, type_chains) ==
    IF d.k = "map" THEN
        LET IsDc(c) == is_dataclass(Leaf(c))
            IsDict(c) == is_dataclass(Leaf(c)) \/ Leaf(c).cat = "dict"
            Matches(c) == /\ is_dataclass(Leaf(c))
                          /\ \A f \in RequiredFields(Leaf(c)) : SK(f) \in DataKeys(d)
            NotDc(c) == Leaf(c).cat = "dict"
            dict_chains == SelectSeq(type_chains, IsDict)
            dataclass_chains == SelectSeq(type_chains, IsDc)
            matches == SelectSeq(type_chains, Matches)
        IN IF Len(dict_chains) = 1 THEN Ok(dict_chains)
           ELSE IF matches # <<>> THEN Ok(matches)
           ELSE IF Len(dict_chains) = Len(dataclass_chains) THEN Ok(dict_chains)
           ELSE Ok(SelectSeq(type_chains, NotDc))
    ELSE IF d.k = "list" THEN
        LET IsList(c) == Leaf(c).cat = "list" IN Ok(SelectSeq(type_chains, IsList))
    ELSE
        LET Raises(c) == Leaf(c).cat \in {"any", "list", "dict", "union"}
            Keeps(c) == PrimIsInstance(d, Leaf(c))
        IN IF \E i \in 1..Len(type_chains) : Raises(type_chains[i])
           THEN Fail("TypeError")
           ELSE Ok(SelectSeq(type_chains, Keeps))

(***************************************************************************)
(* ResolutionNode.                                                         *)
(***************************************************************************)
NewState == [heap |-> <<>>, asets |-> <<>>]

FailSt(e, st) == [err |-> e, st |-> st, id |-> 0]
OkSt(st, id) == [err |-> "", st |-> st, id |-> id]

(* __post_init__: the name is derived from the path; a reference must be   *)
(* in reference format and must not start with the node's own name.        *)
(* A constructor that accepts every reference in reference format.         *)
post_init_unchecked(reference, path) ==
    IF reference # <<>> /\ ~is_reference_format(reference) THEN "ConfigReferenceError"
    ELSE ""

post_init(reference, path) ==
    IF reference # <<>> /\ ~is_reference_format(reference) THEN "ConfigReferenceError"
    ELSE IF reference # <<>> /\ StartsWith(reference, path_to_reference(path))
        THEN "ConfigReferenceError"
    ELSE ""

NodeRec(ckind, prim, keys, kids, reference, type_chains, path, aliases) ==
    [ckind |-> ckind, prim |-> prim, keys |-> keys, kids |-> kids,
     reference |-> reference, value |-> MISSING, type_chains |-> type_chains,
     path |-> path, name |-> path_to_reference(path), aliases |-> aliases,
     resolved |-> <<>>]

(* A constructor that runs no check of the reference.                      *)
NewNode_no_post_init(st, ckind, prim, keys, kids, reference, type_chains, path) ==
    OkSt([heap |-> Append(st.heap,
              NodeRec(ckind, prim, keys, kids, reference, type_chains, path,
                      Len(st.asets) + 1)),
          asets |-> Append(st.asets, {})], Len(st.heap) + 1)

(* ResolutionNode(...) with the default alias set: a fresh set object.     *)
NewNode(st, ckind, prim, keys, kids, reference, type_chains, path) ==
    LET e == post_init(reference, path)
        aid == Len(st.asets) + 1
        nid == Len(st.heap) + 1
    IN IF e # "" THEN FailSt(e, st)
       ELSE OkSt([heap |-> Append(st.heap,
                      NodeRec(ckind, prim, keys, kids, reference, type_chains, path, aid)),
                  asets |-> Append(st.asets, {})], nid)

(* A merged node that takes the path of the root.                          *)
NewNodeSharing_root_path(st, ckind, keys, kids, type_chains, path, aliases) ==
    OkSt([heap |-> Append(st.heap,
              NodeRec(ckind, DNone, keys, kids, <<>>, type_chains, <<>>, aliases)),
          asets |-> st.asets], Len(st.heap) + 1)

(* ResolutionNode(...) given an existing alias set object.                 *)
NewNodeSharing(st, ckind, keys, kids, type_chains, path, aliases) ==
    OkSt([heap |-> Append(st.heap,
              NodeRec(ckind, DNone, keys, kids, <<>>, type_chains, path, aliases)),
          asets |-> st.asets], Len(st.heap) + 1)

(* A test that takes every node with a value for a reference.             *)
is_reference_or_factoried(n) == n.reference # <<>> \/ n.value # MISSING

is_reference(n) == n.reference # <<>>
is_factoried(n) == n.value # MISSING
is_root(n) == n.path = <<>>
(* A name check that accepts every target.                                 *)
matches_name_any(st, n, name) == TRUE

matches_name(st, n, name) == n.name = name \/ name \in st.asets[n.aliases]

HasChild(n, key) == n.ckind = "dict" /\ key \in SeqToSet(n.keys)
Child(n, key) == n.kids[IndexOf(n.keys, key)]

(***************************************************************************)
(* ResolutionNode.build                                                    *)
(***************************************************************************)
RECURSIVE ChildChains(_, _, _)
ChildChains(reg, parent_type_chains, key) ==
    IF parent_type_chains = <<>> THEN Ok(<<>>)
    ELSE LET parent == Head(parent_type_chains)
             Chains(hint) == IF hint = T_Any THEN Ok(<< <<TypeInfo(T_Any)>> >>)
                             ELSE flatten(reg, retrieve(reg, hint, TypeInfo(hint)))
             Extend(first, rest) == IF first.err # "" THEN first
                                    ELSE IF rest.err # "" THEN rest
                                    ELSE Ok(first.val \o rest.val)
         IN Extend(Chains(extract_container_element_type(
                              reg, type_hint(parent[Len(parent)]), key)),
                   ChildChains(reg, Tail(parent_type_chains), key))

RECURSIVE build(_, _, _, _, _, _, _)
RECURSIVE BuildMapKids(_, _, _, _, _, _, _)
RECURSIVE BuildListKids(_, _, _, _, _, _, _)

build(d, type_infos, path, parent_type_chains, reg, default_reg, st) ==
    LET strRef == d.k = "str" /\ is_reference_format(d.v)
        mapRef == d.k = "map" /\ HasKey(d.v, REFERENCE_KEY)
        rv == IF mapRef THEN Lookup(d.v, REFERENCE_KEY) ELSE DNone
        badRef == mapRef /\ ~(rv.k = "str" /\ is_reference_format(rv.v))
        reference == IF strRef THEN d.v ELSE IF mapRef /\ ~badRef THEN rv.v ELSE <<>>
        Node(ckind, prim, keys, ks, type_chains) ==
            IF ks.err # "" THEN FailSt(ks.err, st)
            ELSE NewNode(ks.st, ckind, prim, keys, ks.id, reference, type_chains, path)
        Content(pruned) ==
            IF badRef THEN FailSt("ConfigParseError", st)
            ELSE IF pruned.err # "" THEN FailSt(pruned.err, st)
            ELSE IF d.k = "map" THEN
                Node("dict", DNone, [i \in 1..Len(Strip(d.v)) |-> Strip(d.v)[i][1]],
                     BuildMapKids(Strip(d.v), type_infos, path, pruned.val, default_reg, st, <<>>),
                     pruned.val)
            ELSE IF d.k = "list" THEN
                Node("list", DNone, <<>>,
                     BuildListKids(d.v, type_infos, path, pruned.val, default_reg, st, <<>>), pruned.val)
            ELSE Node("prim", d, <<>>, OkSt(st, <<>>), pruned.val)
        Pruned(tc) ==
            Content(IF tc.err = "" /\ reference = <<>> /\ Len(tc.val) > 1
                    THEN try_prune_type_chains(d, tc.val) ELSE tc)
    IN Pruned(IF path \in DOMAIN type_infos THEN flatten(reg, type_infos[path])
              ELSE IF parent_type_chains # <<>>
                  THEN ChildChains(reg, parent_type_chains, path[Len(path)])
              ELSE IF path # <<>> THEN Fail("ConfigParseError")
              ELSE Ok(<<>>))

(* The recursive calls do not pass type_system on: the children are built  *)
(* with the default argument, the global TypeSystem (default_reg).         *)
BuildMapKids(items, type_infos, path, type_chains, default_reg, st, ids) ==
    IF Len(ids) = Len(items) THEN [err |-> "", st |-> st, id |-> ids]
    ELSE LET it == items[Len(ids) + 1]
             Rest(r) == IF r.err # "" THEN r
                        ELSE BuildMapKids(items, type_infos, path, type_chains,
                                          default_reg, r.st, Append(ids, r.id))
         IN Rest(build(it[2], type_infos, Append(path, it[1]), type_chains,
                       default_reg, default_reg, st))

BuildListKids(items, type_infos, path, type_chains, default_reg, st, ids) ==
    IF Len(ids) = Len(items) THEN [err |-> "", st |-> st, id |-> ids]
    ELSE LET Rest(r) == IF r.err # "" THEN r
                        ELSE BuildListKids(items, type_infos, path, type_chains,
                                           default_reg, r.st, Append(ids, r.id))
         IN Rest(build(items[Len(ids) + 1], type_infos, Append(path, SI(Len(ids))),
                       type_chains, default_reg, default_reg, st))

(***************************************************************************)
(* DependencyGraph                                                         *)
(***************************************************************************)
EmptyGraph ==
    [err |-> "", names |-> <<>>, nodes |-> <<>>, order |-> <<>>,
     dependencies |-> <<>>, dependents |-> <<>>, queue |-> <<>>]

Kids(n) == IF n.ckind = "prim" THEN <<>> ELSE n.kids

(* _collect_nodes: pre-order; the same object met twice is collected once, *)
(* two objects with one name are an error.                                 *)
RECURSIVE collect_nodes(_, _, _)
RECURSIVE collect_kids(_, _, _, _)
(* A collection that takes any node whose name is known for collected.    *)
collect_nodes_by_name(hp, id, g) ==
    LET n == hp[id] IN
    IF g.err # "" \/ n.name \in DOMAIN g.nodes THEN g
    ELSE collect_kids(hp, Kids(n), 1,
             [g EXCEPT !.names = (n.path :> n.name) @@ g.names,
                       !.nodes = g.nodes @@ (n.name :> id),
                       !.order = Append(g.order, n.name)])

collect_nodes(hp, id, g) ==
    LET n == hp[id] IN
    IF g.err # "" THEN g
    ELSE IF n.name \in DOMAIN g.nodes THEN
        IF g.nodes[n.name] # id THEN [g EXCEPT !.err = "ConfigParseError"] ELSE g
    ELSE collect_kids(hp, Kids(n), 1,
             [g EXCEPT !.names = (n.path :> n.name) @@ g.names,
                       !.nodes = g.nodes @@ (n.name :> id),
                       !.order = Append(g.order, n.name)])

collect_kids(hp, kids, i, g) ==
    IF i > Len(kids) \/ g.err # "" THEN g
    ELSE collect_kids(hp, kids, i + 1, collect_nodes(hp, kids[i], g))

(* An edge recorded without looking the depended-upon name up.             *)
add_dependency_unchecked(g, dependent, dependency) ==
    IF g.err # "" THEN g
    ELSE [g EXCEPT !.dependencies[dependent] = @ \cup {dependency},
                   !.dependents = [x \in DOMAIN @ |->
                                      IF x = dependency THEN @[x] \cup {dependent} ELSE @[x]]]

(* _add_dependency *)
add_dependency(g, dependent, dependency) ==
    IF g.err # "" THEN g
    ELSE IF dependency \notin DOMAIN g.nodes THEN [g EXCEPT !.err = "ConfigReferenceError"]
    ELSE [g EXCEPT !.dependencies[dependent] = @ \cup {dependency},
                   !.dependents[dependency] = @ \cup {dependent}]

RECURSIVE add_child_dependencies(_, _, _, _, _)
(* A graph without the edges from a node to its children.                  *)
add_child_dependencies_none(hp, g, node_name, kids, i) == g

add_child_dependencies(hp, g, node_name, kids, i) ==
    IF i > Len(kids) \/ g.err # "" THEN g
    ELSE add_child_dependencies(hp, add_dependency(g, node_name, hp[kids[i]].name),
                                node_name, kids, i + 1)

(* _build_unified_dependencies: over self.nodes in insertion order; the    *)
(* defaultdicts are read with a default of set() everywhere, so they are   *)
(* kept as total functions over the node names.                            *)
RECURSIVE build_unified_dependencies(_, _, _)
build_unified_dependencies(hp, g, i) ==
    IF i > Len(g.order) \/ g.err # "" THEN g
    ELSE LET node_name == g.order[i]
             node == hp[g.nodes[node_name]]
             g1 == IF is_reference(node)
                   THEN add_dependency(g, node_name, node.reference) ELSE g
         IN build_unified_dependencies(hp,
                add_child_dependencies(hp, g1, node_name, Kids(node), 1), i + 1)

Perms(S) ==
    {f \in [1..Cardinality(S) -> S] : \A i, j \in 1..Cardinality(S) : i # j => f[i] # f[j]}

(* The collection-order enumeration of a set of names.                     *)
InOrder(ord, S) == SelectSeq(ord, LAMBDA x : x \in S)

(* How "for dependent in self.dependents.get(node_name, set())" may        *)
(* enumerate: a Python set of str has no defined iteration order (it       *)
(* follows the per-process string hashes), so every order is possible.     *)
SetIterations(ord, S) == Perms(S)

(* Kahn's algorithm.  Only the relative order of the dependents that reach *)
(* in-degree zero is visible in the result.                                *)
RECURSIVE kahn(_, _, _, _)
kahn(g, q, processed, in_degree) ==
    IF q = <<>> THEN {processed}
    ELSE LET node_name == Head(q)
             ds == g.dependents[node_name]
             deg == [x \in DOMAIN in_degree |->
                        IF x \in ds THEN in_degree[x] - 1 ELSE in_degree[x]]
             ready == {d \in ds : deg[d] = 0}
         IN UNION {kahn(g, Tail(q) \o it, Append(processed, node_name), deg) :
                       it \in SetIterations(g.order, ready)}

(* A scheduler that emits the nodes as collected, parents first.            *)
compute_topological_order_preorder(g) ==
    {[g EXCEPT !.queue = [i \in 1..Len(g.order) |-> g.nodes[g.order[i]]]]}

compute_topological_order(g) ==
    LET in_degree == [x \in DOMAIN g.nodes |-> Cardinality(g.dependencies[x])]
        q0 == SelectSeq(g.order, LAMBDA x : in_degree[x] = 0)
    IN {IF Len(processed) # Cardinality(DOMAIN g.nodes)
        THEN [g EXCEPT !.err = "CircularReferenceError"]
        ELSE [g EXCEPT !.queue = [i \in 1..Len(processed) |-> g.nodes[processed[i]]]] :
            processed \in kahn(g, q0, <<>>, in_degree)}

(* DependencyGraph.__init__: the graphs (or the error) it can end with.    *)
DependencyGraph(hp, rootid) ==
    LET Order(g) == IF g.err # "" THEN {g} ELSE compute_topological_order(g)
        Dependencies(g) ==
            IF g.err # "" THEN {g}
            ELSE Order(build_unified_dependencies(hp,
                     [g EXCEPT !.dependencies = [x \in DOMAIN g.nodes |-> {}],
                               !.dependents = [x \in DOMAIN g.nodes |-> {}]], 1))
    IN Dependencies(collect_nodes(hp, rootid, EmptyGraph))

(***************************************************************************)
(* FactorySystem                                                           *)
(***************************************************************************)
VBool(b) == [k |-> "bool", v |-> b]
VStrOf(x) == [k |-> "strof", v |-> x]      \* str(x) of a container or object
VObj(cls, x) == [k |-> "obj", v |-> [cls |-> cls, arg |-> x]]

IsStrValue(x) == x.k \in {"str", "strof"}

(* materialize(after_factory=True) *)
RECURSIVE materialize(_, _)
materialize(hp, id) ==
    LET n == hp[id] IN
    IF n.value # MISSING THEN n.value
    ELSE IF n.ckind = "dict" THEN
        VDict([key \in SeqToSet(n.keys) \ Reserved |-> materialize(hp, Child(n, key))])
    ELSE IF n.ckind = "list" THEN
        VList([i \in 1..Len(n.kids) |-> materialize(hp, n.kids[i])])
    ELSE n.prim

S_true == <<"t", "r", "u", "e">>
S_yes == <<"y", "e", "s">>
S_false == <<"f", "a", "l", "s", "e">>
S_no == <<"n", "o">>

(* _convert_primitive; the strings of the model are lower case already.    *)
convert_primitive(value, target_type) ==
    IF target_type = T_bool THEN
        IF value.k = "bool" THEN Ok(value)
        ELSE IF value.k = "str" THEN
            IF value.v \in {S_true, S_yes, <<"1">>} THEN Ok(VBool(TRUE))
            ELSE IF value.v \in {S_false, S_no, <<"0">>} THEN Ok(VBool(FALSE))
            ELSE Fail("ConfigFactoryError")
        ELSE IF value.k = "int" THEN Ok(VBool(value.v # 0))
        ELSE IF value.k = "dict" THEN Ok(VBool(DOMAIN value.v # {}))
        ELSE IF value.k = "seq" THEN Ok(VBool(value.v # <<>>))
        ELSE Ok(VBool(TRUE))
    ELSE IF target_type = T_int THEN
        IF value.k = "int" THEN Ok(value)
        ELSE IF value.k = "bool" THEN Ok(value)
        ELSE IF value.k = "str" /\ IsDigitStr(value.v) THEN Ok(DInt(StrToInt(value.v)))
        ELSE Fail("ConfigFactoryError")
    ELSE IF target_type = T_str THEN
        IF IsStrValue(value) THEN Ok(value)
        ELSE IF value.k = "int" THEN Ok(DStr(IntToStr(value.v)))
        ELSE Ok(VStrOf(value))
    ELSE Ok(value)

(* _create_dataclass *)
create_dataclass(value, cls) ==
    IF value.k = "dc" /\ value.v.cls = cls THEN Ok(value)
    ELSE IF value.k # "dict" THEN Fail("ConfigFactoryError")
    ELSE IF \E f \in RequiredFields(cls) : SK(f) \notin DOMAIN value.v
        THEN Fail("ConfigFactoryError")
    ELSE Ok(VInst(cls, [f \in FieldNames(cls) |->
                IF SK(f) \in DOMAIN value.v THEN value.v[SK(f)]
                ELSE FieldOf(cls, f).default]))

(* _apply_builtin_type *)
apply_builtin_type(value, target_type) ==
    IF value = DNone THEN Ok(DNone)
    ELSE IF target_type = T_Any THEN Ok(value)
    ELSE IF target_type \in {T_bool, T_int, T_str} THEN convert_primitive(value, target_type)
    ELSE IF is_dataclass(target_type) THEN create_dataclass(value, target_type)
    ELSE IF target_type.cat = "list" THEN
        IF value.k = "seq" THEN Ok(value) ELSE Fail("ConfigFactoryError")
    ELSE IF target_type.cat = "dict" THEN
        IF value.k = "dict" THEN Ok(value) ELSE Fail("ConfigFactoryError")
    ELSE Ok(value)

(* The custom factories of the model: a class called on a str makes an     *)
(* object of the class and refuses anything else.                          *)
custom_factory(factory, value) ==
    IF factory \in Classes /\ IsStrValue(value) THEN Ok(VObj(factory, value))
    ELSE Fail("ConfigFactoryError")

(* _apply_type_chain: from the last TypeInfo to the first.                 *)
RECURSIVE apply_type_chain(_, _)
apply_type_chain(value, type_chain) ==
    IF type_chain = <<>> THEN Ok(value)
    ELSE LET type_info == type_chain[Len(type_chain)]
             Rest(r) == IF r.err # "" THEN r
                        ELSE apply_type_chain(r.val, SubSeq(type_chain, 1, Len(type_chain) - 1))
         IN Rest(IF type_info.custom.on
                 THEN custom_factory(type_info.custom.factory, value)
                 ELSE apply_builtin_type(value, type_info.type_))

IsAnyChain(c) == c # <<>> /\ Leaf(c) = T_Any
IsConcrete(c) == c # <<>> /\ Leaf(c) # T_Any

(* The chain FactorySystem.apply settles on: the first concrete chain that *)
(* applies, else the last Any chain, else none.                            *)
ChainsThatApply(value, type_chains) ==
    {i \in 1..Len(type_chains) :
        IsConcrete(type_chains[i]) /\ apply_type_chain(value, type_chains[i]).err = ""}

(* The greatest index, where the least is meant.                           *)
FirstOf_greatest(S) == CHOOSE i \in S : \A j \in S : j <= i

FirstOf(S) == CHOOSE i \in S : \A j \in S : i <= j
LastOf(S) == CHOOSE i \in S : \A j \in S : j <= i

(* A store of the value that does not record the chain that produced it.  *)
SetValue_keep_chains(st, id, value, type_chains) ==
    [st EXCEPT !.heap[id].value = value]

SetValue(st, id, value, type_chains) ==
    [st EXCEPT !.heap[id].value = value, !.heap[id].type_chains = type_chains]

(* FactorySystem.apply: returns [err, st]; the children factoried before   *)
(* a failure stay factoried.                                               *)
RECURSIVE apply(_, _)
RECURSIVE apply_kids(_, _, _)
(* An apply that takes a reference node for a plain one.                   *)
apply_reference_too(st, id) ==
    IF is_factoried(st.heap[id]) THEN [err |-> "", st |-> st]
    ELSE [err |-> "", st |-> [st EXCEPT !.heap[id].value = materialize(st.heap, id)]]

apply(st, id) ==
    LET node == st.heap[id] IN
    IF is_factoried(node) THEN [err |-> "", st |-> st]
    ELSE IF is_reference(node) THEN [err |-> "ConfigFactoryError", st |-> st]
    ELSE LET type_chains == node.type_chains
             concrete == {i \in 1..Len(type_chains) : IsConcrete(type_chains[i])}
             anys == {i \in 1..Len(type_chains) : IsAnyChain(type_chains[i])}
             Succeeded(st1, value, type_chain) ==
                 [err |-> "",
                  st |-> SetValue(st1, id, apply_type_chain(value, type_chain).val,
                                  <<type_chain>>)]
             Transform(st1, value, good) ==
                 IF type_chains = <<>> THEN
                     [err |-> "", st |-> [st1 EXCEPT !.heap[id].value = value]]
                 ELSE IF good # {} THEN Succeeded(st1, value, type_chains[FirstOf(good)])
                 ELSE IF concrete # {} /\ anys = {} THEN
                     [err |-> "ConfigFactoryError", st |-> st1]
                 ELSE [err |-> "",
                       st |-> SetValue(st1, id, value,
                                  IF anys # {} THEN <<type_chains[LastOf(anys)]>> ELSE <<>>)]
             Value(st1, value) == Transform(st1, value, ChainsThatApply(value, type_chains))
             Children(k) == IF k.err # "" THEN k ELSE Value(k.st, materialize(k.st.heap, id))
         IN Children(apply_kids(st, Kids(node), 1))

apply_kids(st, kids, i) ==
    IF i > Len(kids) THEN [err |-> "", st |-> st]
    ELSE LET Rest(r) == IF r.err # "" THEN r ELSE apply_kids(r.st, kids, i + 1)
         IN Rest(apply(st, kids[i]))

(***************************************************************************)
(* Reference resolution and override merge                                 *)
(***************************************************************************)
(* An alias that takes the place of the names recorded before.            *)
AddAlias_replace(st, id, name) ==
    [st EXCEPT !.asets[st.heap[id].aliases] = {name}]

AddAlias(st, id, name) ==
    [st EXCEPT !.asets[st.heap[id].aliases] = @ \cup {name}]

(* A count that takes every mapping for one with a key of its own.        *)
UpdateCount_one(n) == 1

(* len(content) - int("_reference_" in content) - int("_overwrite_" in content) *)
UpdateCount(n) == Cardinality(SeqToSet(n.keys) \ Reserved)

(* The key under which a list override holds position index: the int, else *)
(* its decimal string.                                                     *)
HasIndex(u, index) == HasChild(u, SI(index)) \/ HasChild(u, SK(IntToStr(index)))
IndexKey(u, index) == IF HasChild(u, SI(index)) THEN SI(index) ELSE SK(IntToStr(index))

IsIntKey(key) == key.k = "int" \/ IsDigitStr(key.v)
(* An index conversion that yields the first index for every key.         *)
IntOfKey_first(key) == 0

IntOfKey(key) == IF key.k = "int" THEN key.v ELSE StrToInt(key.v)

MaxOf(S) == CHOOSE x \in S : \A y \in S : y <= x

RECURSIVE copy_with_update(_, _, _)
RECURSIVE merge_dict(_, _, _, _, _, _)
RECURSIVE merge_list(_, _, _, _, _)

copy_with_update(st, self, update_node) ==
    LET t == st.heap[self]
        u == st.heap[update_node]
    IN IF u.ckind # "dict" \/ UpdateCount(u) <= 0 THEN
            IF is_reference(u) THEN FailSt("ConfigReferenceError", st)
            ELSE OkSt(st, update_node)
       ELSE IF t.ckind = "dict" THEN
            LET extra == SelectSeq(u.keys, LAMBDA key : key \notin Reserved /\ ~HasChild(t, key))
                Merged(m) ==
                    IF m.err # "" THEN FailSt(m.err, m.st)
                    ELSE NewNodeSharing(m.st, "dict", m.keys \o extra,
                             m.kids \o [i \in 1..Len(extra) |-> Child(u, extra[i])],
                             u.type_chains, u.path, u.aliases)
            IN Merged(merge_dict(st, self, update_node, 1, <<>>, <<>>))
       ELSE IF t.ckind = "list" THEN
            LET ks == SeqToSet(u.keys) \ Reserved
                start_index == Len(t.kids)
                Extended(m, max_index) ==
                    IF \E index \in start_index..max_index : ~HasIndex(u, index)
                    THEN FailSt("KeyError", m.st)
                    ELSE NewNodeSharing(m.st, "list", <<>>,
                             m.kids \o [i \in 1..(max_index + 1 - start_index) |->
                                           Child(u, IndexKey(u, start_index + i - 1))],
                             u.type_chains, u.path, u.aliases)
                Merged(m) ==
                    IF m.err # "" THEN FailSt(m.err, m.st)
                    ELSE IF \E key \in ks : ~IsIntKey(key) THEN
                        FailSt(IF t.kids = <<>> THEN "UnboundLocalError" ELSE "KeyError", m.st)
                    ELSE Extended(m, MaxOf({IntOfKey(key) : key \in ks}))
            IN Merged(merge_list(st, self, update_node, 1, <<>>))
       ELSE OkSt(st, update_node)

(* A first loop in which a key of both operands keeps the target's child. *)
merge_dict_keep_target(st, self, update_node, i, keys, kids) ==
    LET t == st.heap[self]
        u == st.heap[update_node]
    IN IF i > Len(t.keys) THEN [err |-> "", st |-> st, keys |-> keys, kids |-> kids]
       ELSE LET key == t.keys[i] IN
            IF key \in Reserved THEN merge_dict(st, self, update_node, i + 1, keys, kids)
            ELSE merge_dict(
                     IF HasChild(u, key) THEN st
                     ELSE AddAlias(st, t.kids[i], path_to_reference(Append(u.path, key))),
                     self, update_node, i + 1, Append(keys, key), Append(kids, t.kids[i]))

(* First loop of the mapping case: the target's keys in order.             *)
merge_dict(st, self, update_node, i, keys, kids) ==
    LET t == st.heap[self]
        u == st.heap[update_node]
    IN IF i > Len(t.keys) THEN [err |-> "", st |-> st, keys |-> keys, kids |-> kids]
       ELSE LET key == t.keys[i] IN
            IF key \in Reserved THEN merge_dict(st, self, update_node, i + 1, keys, kids)
            ELSE IF ~HasChild(u, key) THEN
                merge_dict(AddAlias(st, t.kids[i], path_to_reference(Append(u.path, key))),
                           self, update_node, i + 1, Append(keys, key), Append(kids, t.kids[i]))
            ELSE LET Rest(r) ==
                         IF r.err # ""
                         THEN [err |-> r.err, st |-> r.st, keys |-> keys, kids |-> kids]
                         ELSE merge_dict(r.st, self, update_node, i + 1,
                                         Append(keys, key), Append(kids, r.id))
                 IN Rest(copy_with_update(st, t.kids[i], Child(u, key)))

(* A first loop in which every position keeps the target's item.          *)
merge_list_keep_target(st, self, update_node, i, kids) ==
    LET t == st.heap[self]
        u == st.heap[update_node]
        index == i - 1
    IN IF i > Len(t.kids) THEN [err |-> "", st |-> st, kids |-> kids]
       ELSE merge_list(
                IF HasIndex(u, index) THEN st
                ELSE AddAlias(st, t.kids[i], path_to_reference(Append(u.path, SI(index)))),
                self, update_node, i + 1, Append(kids, t.kids[i]))

(* First loop of the sequence case: the target's items by index.           *)
merge_list(st, self, update_node, i, kids) ==
    LET t == st.heap[self]
        u == st.heap[update_node]
        index == i - 1
    IN IF i > Len(t.kids) THEN [err |-> "", st |-> st, kids |-> kids]
       ELSE IF ~HasIndex(u, index) THEN
            merge_list(AddAlias(st, t.kids[i], path_to_reference(Append(u.path, SI(index)))),
                       self, update_node, i + 1, Append(kids, t.kids[i]))
       ELSE LET Rest(r) ==
                    IF r.err # "" THEN [err |-> r.err, st |-> r.st, kids |-> kids]
                    ELSE merge_list(r.st, self, update_node, i + 1, Append(kids, r.id))
            IN Rest(copy_with_update(st, t.kids[i], Child(u, IndexKey(u, index))))

(* A resolve_reference that hands the target back without recording the   *)
(* name under which it is now known.                                       *)
node_resolve_reference_no_alias(st, self, target_node) ==
    LET n == st.heap[self]
        t == st.heap[target_node]
    IN IF ~is_reference(n) \/ is_factoried(n) \/ is_reference(t)
           \/ ~matches_name(st, t, n.reference) THEN FailSt("ConfigReferenceError", st)
       ELSE IF n.ckind # "dict" \/ UpdateCount(n) <= 0 THEN OkSt(st, target_node)
       ELSE LET Merged(r) ==
                    IF r.err # "" \/ r.id = target_node THEN r
                    ELSE OkSt([r.st EXCEPT !.heap[r.id].resolved = n.reference], r.id)
            IN Merged(copy_with_update(st, target_node, self))

(* ResolutionNode.resolve_reference *)
node_resolve_reference(st, self, target_node) ==
    LET n == st.heap[self]
        t == st.heap[target_node]
    IN IF ~is_reference(n) THEN FailSt("ConfigReferenceError", st)
       ELSE IF is_factoried(n) THEN FailSt("ConfigReferenceError", st)
       ELSE IF ~matches_name(st, t, n.reference) THEN FailSt("ConfigReferenceError", st)
       ELSE IF is_reference(t) THEN FailSt("ConfigReferenceError", st)
       ELSE IF n.ckind # "dict" \/ UpdateCount(n) <= 0 THEN
            OkSt(AddAlias(st, target_node, n.name), target_node)
       ELSE LET Merged(r) ==
                    IF r.err # "" \/ r.id = target_node THEN r
                    ELSE OkSt([r.st EXCEPT !.heap[r.id].resolved = n.reference], r.id)
            IN Merged(copy_with_update(st, target_node, self))

(* A set_node that replaces the node in its parent and leaves the name     *)
(* table alone.                                                            *)
set_node_parent_only(st, g_names, g_nodes, path, node) ==
    LET bad(e) == [err |-> e, st |-> st, nodes |-> g_nodes]
        parent_path == SubSeq(path, 1, Len(path) - 1)
        field_name == path[Len(path)]
        parent == g_nodes[g_names[parent_path]]
        p == st.heap[parent]
    IN IF path \notin DOMAIN g_names THEN bad("KeyError")
       ELSE IF path = <<>> THEN bad("IndexError")
       ELSE IF parent_path \notin DOMAIN g_names THEN bad("KeyError")
       ELSE IF p.ckind = "dict" /\ ~HasChild(p, field_name) THEN
            [err |-> "", nodes |-> g_nodes,
             st |-> [st EXCEPT !.heap[parent].keys = Append(@, field_name),
                               !.heap[parent].kids = Append(@, node)]]
       ELSE [err |-> "", nodes |-> g_nodes,
             st |-> [st EXCEPT !.heap[parent].kids[
                        IF p.ckind = "dict" THEN IndexOf(p.keys, field_name)
                        ELSE IntOfKey(field_name) + 1] = node]]

(* DependencyGraph.set_node: returns [err, st, nodes].                     *)
set_node(st, g_names, g_nodes, path, node) ==
    LET bad(e) == [err |-> e, st |-> st, nodes |-> g_nodes]
        parent_path == SubSeq(path, 1, Len(path) - 1)
        field_name == path[Len(path)]
        parent == g_nodes[g_names[parent_path]]
        p == st.heap[parent]
        nodes1 == [g_nodes EXCEPT ![g_names[path]] = node]
    IN IF path \notin DOMAIN g_names THEN bad("KeyError")
       ELSE IF path = <<>> THEN bad("IndexError")
       ELSE IF parent_path \notin DOMAIN g_names THEN bad("KeyError")
       ELSE IF p.ckind = "dict" THEN
            [err |-> "", nodes |-> nodes1,
             st |-> IF HasChild(p, field_name)
                    THEN [st EXCEPT !.heap[parent].kids[IndexOf(p.keys, field_name)] = node]
                    ELSE [st EXCEPT !.heap[parent].keys = Append(@, field_name),
                                    !.heap[parent].kids = Append(@, node)]]
       ELSE IF p.ckind = "list" THEN
            IF ~IsIntKey(field_name) THEN
                [err |-> "ValueError", st |-> st, nodes |-> nodes1]
            ELSE IF IntOfKey(field_name) >= Len(p.kids) THEN
                [err |-> "IndexError", st |-> st, nodes |-> nodes1]
            ELSE [err |-> "", nodes |-> nodes1,
                  st |-> [st EXCEPT !.heap[parent].kids[IntOfKey(field_name) + 1] = node]]
       ELSE [err |-> "", st |-> st, nodes |-> nodes1]

(* ResolutionState.resolve_reference: returns [err, st, nodes].            *)
state_resolve_reference(st, g_names, g_nodes, node) ==
    LET n == st.heap[node]
        Replace(a, id) ==
            IF a.err # "" THEN [err |-> a.err, st |-> a.st, nodes |-> g_nodes]
            ELSE set_node(a.st, g_names, g_nodes, n.path, id)
        Factory(r) ==
            IF r.err # "" THEN [err |-> r.err, st |-> r.st, nodes |-> g_nodes]
            ELSE Replace(apply(r.st, r.id), r.id)
    IN IF n.reference \notin DOMAIN g_nodes
           THEN [err |-> "KeyError", st |-> st, nodes |-> g_nodes]
       ELSE Factory(node_resolve_reference(st, node, g_nodes[n.reference]))

(***************************************************************************)
(* The inputs: the merged raw data of three scopes bound to Conf; a fourth *)
(* scope, p, is bound to PConf.                                            *)
(***************************************************************************)
Scope_a == SK(<<"a">>)
Scope_ab == SK(<<"a", "b">>)
Scope_b == SK(<<"b">>)
Scope_p == SK(<<"p">>)
Scopes == <<Scope_a, Scope_ab, Scope_b, Scope_p>>

(* configs of ResolutionState.__init__: scope -> dataclass *)
Configs == [sc \in SeqToSet(Scopes) |-> IF sc = Scope_p THEN T_PConf ELSE T_Conf]

(* for config in configs.values(): type_system.scan(config) *)
ScanConfigs(reg) == scan_all(reg, {Configs[sc] : sc \in SeqToSet(Scopes)})

(* self._type_infos after the loop of ResolutionState.__init__ *)
RECURSIVE TypeInfoPairs(_, _)
TypeInfoPairs(reg, i) ==
    IF i > Len(Scopes) THEN {}
    ELSE {<< <<Scopes[i]>>, TypeInfo(Configs[Scopes[i]]) >>}
         \cup build_type_infos(reg, Configs[Scopes[i]], <<Scopes[i]>>)
         \cup TypeInfoPairs(reg, i + 1)

TypeInfosOf(reg) ==
    LET pairs == TypeInfoPairs(reg, 1) IN
    [p \in {x[1] : x \in pairs} |-> (CHOOSE x \in pairs : x[1] = p)[2]]

Ref(sc) == path_to_reference(<<sc>>)
RefTo(path) == DStr(path_to_reference(path))
Sx == DStr(<<"x">>)
Sy == DStr(<<"y">>)
Sz == DStr(<<"z">>)
K(name) == SK(name)

IntList(n) == DList([i \in 1..n |-> DInt(i)])

(* Data without references. *)
PlainData ==
    { DMap(<< <<K(F_n), Sx>>, <<K(F_v), DInt(1)>> >>),
      DMap(<< <<K(F_v), DInt(1)>> >>),
      DMap(<< <<K(F_n), Sx>>, <<K(F_s), DMap(<< <<K(F_n), Sy>>, <<K(F_v), DInt(2)>> >>)>> >>),
      DMap(<< <<K(F_n), Sx>>, <<K(F_s), DInt(5)>> >>) }
    \cup {DMap(<< <<K(F_n), Sx>>, <<K(F_l), IntList(n)>> >>) : n \in 0..MaxList}

(* The override keys tried on a list: the first index, the index just past *)
(* the longest list, one beyond it, a key that is not an integer, and an   *)
(* index given as an int.                                                  *)
ListKeys == {K(<<"0">>), K(IntToStr(MaxList)), K(IntToStr(MaxList + 1)), K(<<"x">>), SI(1)}

(* Data that refers to scope t. *)
RefData(t) ==
    { RefTo(<<t>>),
      RefTo(<<t, K(F_s)>>),
      RefTo(<<t, K(F_n)>>),
      DMap(<< <<REFERENCE_KEY, RefTo(<<t>>)>> >>),
      DMap(<< <<REFERENCE_KEY, RefTo(<<t>>)>>, <<K(F_n), Sz>> >>),
      DMap(<< <<REFERENCE_KEY, RefTo(<<t>>)>>, <<K(F_v), DInt(3)>> >>),
      DMap(<< <<REFERENCE_KEY, RefTo(<<t>>)>>, <<K(F_s), DMap(<< <<K(F_v), DInt(3)>> >>)>> >>),
      DMap(<< <<REFERENCE_KEY, RefTo(<<t>>)>>, <<K(F_s), DMap(<< <<K(F_n), Sz>> >>)>> >>),
      DMap(<< <<REFERENCE_KEY, RefTo(<<t>>)>>,
              <<K(F_s), DMap(<< <<K(F_n), Sz>>, <<K(F_v), DInt(3)>> >>)>> >>),
      DMap(<< <<K(F_n), RefTo(<<t, K(F_n)>>)>> >>),
      DMap(<< <<K(F_n), Sx>>, <<K(F_s), RefTo(<<t, K(F_s)>>)>> >>),
      DMap(<< <<K(F_n), Sx>>, <<K(F_s), RefTo(<<t>>)>> >>),
      DMap(<< <<K(F_n), Sx>>,
              <<K(F_s), DMap(<< <<REFERENCE_KEY, RefTo(<<t, K(F_s)>>)>>,
                                <<K(F_v), DInt(3)>> >>)>> >>) }
    \cup { DMap(<< <<K(F_n), Sx>>,
                   <<K(F_l), DMap(<< <<REFERENCE_KEY, RefTo(<<t, K(F_l)>>)>>,
                                     <<key, DInt(5)>> >>)>> >>) : key \in ListKeys }

Absent == [k |-> "absent", v |-> 0]

(* What each scope may hold.  a is mostly a base, b refers to a or ab,     *)
(* ab refers to b or a; a may refer to b so that cycles of every length    *)
(* through the three scopes exist.                                         *)
Options(sc) ==
    IF sc = Scope_a THEN
        PlainData \cup {RefTo(<<Scope_b>>), RefTo(<<Scope_a>>), RefTo(<<Scope_ab>>),
                        RefTo(<<Scope_a, K(F_n)>>),
                        DMap(<< <<K(F_n), Sx>>, <<K(F_s), RefTo(<<Scope_a>>)>> >>),
                        DMap(<< <<K(F_n), Sx>>, <<K(F_s), RefTo(<<Scope_b, K(F_s)>>)>> >>)}
    ELSE IF sc = Scope_b THEN
        RefData(Scope_a) \cup {RefTo(<<Scope_ab>>), RefTo(<<K(<<"z", "z">>)>>),
                               DMap(<< <<K(F_n), Sx>> >>)}
    ELSE {Absent, RefTo(<<Scope_b>>), RefTo(<<Scope_a>>),
          RefTo(<<Scope_b, K(F_s)>>), RefTo(<<Scope_b, K(F_n)>>),
          DMap(<< <<REFERENCE_KEY, RefTo(<<Scope_b>>)>>, <<K(F_n), Sy>> >>),
          DMap(<< <<K(F_n), Sx>>, <<K(F_s), RefTo(<<Scope_b, K(F_s)>>)>> >>)}

Item(sc, d) == IF d = Absent THEN <<>> ELSE << <<sc, d>> >>

(* The registries tried for a caller-made TypeSystem and for the global   *)
(* one, and the data resolved with them.                                   *)
RegistryPool ==
    {<<>>} \cup {[t \in {T_Path} |-> CustomTypeInfo(T_Path, T_str, f)] : f \in {"Path", "Local1"}}

LocalInputs ==
    { DMap(<< <<Scope_p, DMap(<< <<K(F_p), Sx>> >>)>> >>),
      DMap(<< <<Scope_p, DMap(<<>>)>> >>),
      DMap(<< <<Scope_a, DMap(<< <<K(F_n), Sx>> >>)>>,
              <<Scope_p, DMap(<< <<K(F_p), Sy>> >>)>> >>),
      DMap(<< <<Scope_a, DMap(<< <<K(F_n), Sx>> >>)>> >>) }

Inputs ==
    {DMap(Item(Scope_a, da) \o Item(Scope_ab, dab) \o Item(Scope_b, db)) :
        da \in Options(Scope_a), dab \in Options(Scope_ab), db \in Options(Scope_b)}

(***************************************************************************)
(* Hand-made nodes, as the unit tests of FactorySystem make them: one node *)
(* with a chosen content and a chosen list of type chains.                 *)
(***************************************************************************)
ChainPool ==
    { <<TypeInfo(T_bool)>>, <<TypeInfo(T_int)>>, <<TypeInfo(T_str)>>,
      <<TypeInfo(T_Any)>>, <<TypeInfo(T_Sub)>>, <<>>,
      <<CustomTypeInfo(T_Path, T_str, "Path"), TypeInfo(T_str)>> }

ChainLists == UNION {[1..n -> ChainPool] : n \in 0..MaxChains}

UnitPath == <<SK(<<"v">>)>>

UnitContents == {DStr(<<"1">>), DStr(<<"x">>), DInt(1), DMap(<< <<K(F_n), Sx>> >>)}

(* The heap after ResolutionNode(content=..., path=("v",)) and the         *)
(* assignment node.type_chains = chains.                                   *)
UnitHeap(content, chains) ==
    IF content.k = "map" THEN
        LET c == NewNode(NewState, "prim", content.v[1][2], <<>>, <<>>, <<>>, <<>>,
                         Append(UnitPath, content.v[1][1]))
        IN NewNode(c.st, "dict", DNone, <<content.v[1][1]>>, <<c.id>>, <<>>, chains, UnitPath)
    ELSE NewNode(NewState, "prim", content, <<>>, <<>>, <<>>, chains, UnitPath)

(***************************************************************************)
(* Hand-made nodes, as the unit tests of ResolutionNode make them: a       *)
(* target at ("t",) and a node at ("r",), each a string or a mapping with  *)
(* one child, with a chosen reference; the test may then assign a value    *)
(* and the target may already be known under another name.                 *)
(***************************************************************************)
Path_t == <<SK(<<"t">>)>>
Path_r == <<SK(<<"r">>)>>
Ref_t == path_to_reference(Path_t)
Ref_o == path_to_reference(<<SK(<<"o">>)>>)

HandContents == {DStr(<<"x">>), DMap(<< <<K(F_n), Sx>> >>)}
HandValues == {MISSING, DStr(<<"f">>)}

(* ResolutionNode(content=..., reference=..., path=...), then node.value = value *)
HandNode(st, content, reference, path, value) ==
    LET Assign(n) == OkSt([n.st EXCEPT !.heap[n.id].value = value], n.id)
        Parent(c) == NewNode(c.st, "dict", DNone, <<content.v[1][1]>>, <<c.id>>,
                             reference, <<>>, path)
    IN IF content.k = "map"
       THEN Assign(Parent(NewNode(st, "prim", content.v[1][2], <<>>, <<>>, <<>>, <<>>,
                                  Append(path, content.v[1][1]))))
       ELSE Assign(NewNode(st, "prim", content, <<>>, <<>>, reference, <<>>, path))

(* The target, then the node; alias is a set of names added to the target. *)
HandHeap(tc, tref, tval, alias, rc, rref, rval) ==
    LET Alias(t) == [t.st EXCEPT !.asets[t.st.heap[t.id].aliases] = alias]
    IN HandNode(Alias(HandNode(NewState, tc, tref, Path_t, tval)), rc, rref, Path_r, rval)

(***************************************************************************)
(* Hand-made nodes, as the unit tests of copy_with_update make them: an    *)
(* original at ("t",) and an update at ("r",), each a string, an empty     *)
(* mapping or a mapping with one child, which may again be a mapping; the  *)
(* update may carry a reference.                                           *)
(***************************************************************************)
MergeContents ==
    HandContents \cup {DMap(<<>>), DMap(<< <<K(F_n), DMap(<<>>)>> >>),
                       DMap(<< <<K(F_n), DMap(<< <<K(F_n), Sx>> >>)>> >>)}

RECURSIVE MergeNode(_, _, _, _)
MergeNode(st, content, reference, path) ==
    IF content.k # "map" THEN NewNode(st, "prim", content, <<>>, <<>>, reference, <<>>, path)
    ELSE IF content.v = <<>>
        THEN NewNode(st, "dict", DNone, <<>>, <<>>, reference, <<>>, path)
    ELSE LET Parent(c) == NewNode(c.st, "dict", DNone, <<content.v[1][1]>>, <<c.id>>,
                                  reference, <<>>, path)
         IN Parent(MergeNode(st, content.v[1][2], <<>>, Append(path, content.v[1][1])))

MergeHeap(tc, rc, rref) == MergeNode(MergeNode(NewState, tc, <<>>, Path_t).st, rc, rref, Path_r)

(***************************************************************************)
(* Hand-made trees, as the unit tests of DependencyGraph make them: a top  *)
(* mapping at ("g",) over two mappings p and q and a leaf slot c; each of  *)
(* the three leaf slots holds one of four leaf objects.  c1 and c2 are two *)
(* objects with one path, c3 has another path with the same name, d has a  *)
(* name of its own.                                                        *)
(***************************************************************************)
Path_g == <<SK(<<"g">>)>>
Key_c == SK(<<"c">>)
Key_d == SK(<<"d">>)
Key_p == SK(<<"p">>)
Key_q == SK(<<"q">>)
Key_x == SK(<<"x">>)

TreeLeaves == 1..4
TreeTop == 7

TreeHeap(x1, x2, x3) ==
    LET leaf(path, a) == NodeRec("prim", Sx, <<>>, <<>>, <<>>, <<>>, path, a)
        dict(keys, kids, path, a) == NodeRec("dict", DNone, keys, kids, <<>>, <<>>, path, a)
    IN << leaf(Append(Path_g, Key_c), 1),
          leaf(Append(Path_g, Key_c), 2),
          leaf(<<SK(<<"g", ":", ":", "c">>)>>, 3),
          leaf(Append(Path_g, Key_d), 4),
          dict(<<Key_x>>, <<x1>>, Append(Path_g, Key_p), 5),
          dict(<<Key_x>>, <<x2>>, Append(Path_g, Key_q), 6),
          dict(<<Key_p, Key_q, Key_c>>, <<5, 6, x3>>, Path_g, 7) >>

(* A list at ("g",) over two items, and a third leaf object outside it.    *)
ItemsTop == 4

ItemsHeap ==
    LET leaf(path, a) == NodeRec("prim", Sx, <<>>, <<>>, <<>>, <<>>, path, a)
    IN << leaf(Append(Path_g, SI(0)), 1),
          leaf(Append(Path_g, SI(1)), 2),
          leaf(Append(Path_g, SI(0)), 3),
          NodeRec("list", DNone, <<>>, <<1, 2>>, <<>>, <<>>, Path_g, 4) >>

(* The paths tried on set_node besides the paths of the graph: one whose   *)
(* parent is in the graph and one whose parent is not.                     *)
UnknownPaths == {Append(Path_g, Key_x), <<Key_x, Key_x>>}

(***************************************************************************)
(* The state machine.                                                      *)
(***************************************************************************)
(* The caller works with the global TypeSystem; another instance exists   *)
(* and is empty.                                                           *)
Instances == {"global", "local"}

DefaultTypeSystem ==
    /\ type_system = "global"
    /\ registries = [i \in Instances |-> IF i = "global" THEN GlobalRegistry ELSE <<>>]

NoGraph ==
    /\ names = <<>> /\ nodes = <<>> /\ order = <<>>
    /\ dependencies = <<>> /\ dependents = <<>> /\ queue = <<>>

InitPipeline ==
    /\ pc = "new"
    /\ data \in Inputs
    /\ heap = <<>> /\ asets = <<>> /\ root = 0
    /\ NoGraph
    /\ idx = 0 /\ err = "" /\ call = <<>>
    /\ DefaultTypeSystem

(* The resolver is given a TypeSystem the caller made. *)
InitLocal ==
    /\ pc = "new"
    /\ data \in LocalInputs
    /\ heap = <<>> /\ asets = <<>> /\ root = 0
    /\ NoGraph
    /\ idx = 0 /\ err = "" /\ call = <<>>
    /\ type_system = "local"
    /\ registries \in [Instances -> RegistryPool]

InitUnit ==
    /\ pc = "unit"
    /\ data = DNone
    /\ \E content \in UnitContents, chains \in ChainLists :
          \E u \in {UnitHeap(content, chains)} :
          /\ heap = u.st.heap /\ asets = u.st.asets /\ root = u.id
    /\ NoGraph
    /\ idx = 0 /\ err = "" /\ call = <<>>
    /\ DefaultTypeSystem

InitNodes ==
    /\ pc = "nodes"
    /\ data = DNone
    /\ \E tc \in HandContents, tref \in {<<>>, Ref_o}, tval \in HandValues,
          alias \in {{}, {Ref_o}},
          rc \in HandContents, rref \in {<<>>, Ref_t, Ref_o}, rval \in HandValues :
          \E h \in {HandHeap(tc, tref, tval, alias, rc, rref, rval)} :
          /\ heap = h.st.heap /\ asets = h.st.asets /\ root = h.id
    /\ NoGraph
    /\ idx = 0 /\ err = "" /\ call = <<>>
    /\ DefaultTypeSystem

InitTree ==
    /\ pc = "tree"
    /\ data = DNone
    /\ \/ /\ \E x1 \in TreeLeaves, x2 \in TreeLeaves, x3 \in TreeLeaves :
                heap = TreeHeap(x1, x2, x3)
          /\ root = TreeTop
       \/ heap = ItemsHeap /\ root = ItemsTop
    /\ asets = [i \in DOMAIN heap |-> {}]
    /\ NoGraph
    /\ idx = 0 /\ err = "" /\ call = <<>>
    /\ DefaultTypeSystem

(* A fresh TypeSystem() on which the caller registers types.               *)
InitTypes ==
    /\ pc = "types"
    /\ data = DNone
    /\ heap = <<>> /\ asets = <<>> /\ root = 0
    /\ NoGraph
    /\ idx = 0 /\ err = "" /\ call = <<>>
    /\ type_system = "local"
    /\ registries = [i \in Instances |-> IF i = "global" THEN GlobalRegistry ELSE <<>>]

(* Two hand-made nodes before original.copy_with_update(update).           *)
InitMerge ==
    /\ pc = "merge"
    /\ data = DNone
    /\ \E tc \in MergeContents, rc \in MergeContents, rref \in {<<>>, Ref_o} :
          \E h \in {MergeHeap(tc, rc, rref)} :
          /\ heap = h.st.heap /\ asets = h.st.asets /\ root = h.id
    /\ NoGraph
    /\ idx = 0 /\ err = "" /\ call = <<>>
    /\ DefaultTypeSystem

Init ==
    InitPipeline \/ InitLocal \/ InitUnit \/ InitNodes \/ InitTree \/ InitTypes \/ InitMerge

(* The tree of ResolutionState.__init__ for the registry of type_system    *)
(* and the registry of the global instance.                                *)
BuildRoot(d, reg, default_reg) ==
    IF ScanConfigs(reg) # "" THEN FailSt(ScanConfigs(reg), NewState)
    ELSE build(d, TypeInfosOf(reg), <<>>, <<>>, reg, default_reg, NewState)

(* ResolutionState.__init__(data, configs, type_system): scan the configs, *)
(* build the tree, then the dependency graph.  self.root is assigned       *)
(* before the graph is built, so the tree exists when the graph is refused.*)
ResolutionState_init ==
    /\ pc = "new"
    /\ \E b \in {BuildRoot(data, registries[type_system], registries["global"])} :
          IF b.err # "" THEN
              /\ pc' = "error" /\ err' = b.err
              /\ UNCHANGED <<heap, asets, root, names, nodes, order,
                             dependencies, dependents, queue, idx>>
          ELSE \E g \in DependencyGraph(b.st.heap, b.id) :
              /\ heap' = b.st.heap /\ asets' = b.st.asets /\ root' = b.id
              /\ IF g.err # "" THEN
                     /\ pc' = "error" /\ err' = g.err
                     /\ UNCHANGED <<names, nodes, order, dependencies, dependents, queue, idx>>
                 ELSE
                     /\ pc' = "run" /\ err' = ""
                     /\ names' = g.names /\ nodes' = g.nodes /\ order' = g.order
                     /\ dependencies' = g.dependencies /\ dependents' = g.dependents
                     /\ queue' = g.queue /\ idx' = 1
    /\ UNCHANGED <<data, call, registries, type_system>>

(* One iteration of "for node in queue" of _resolve_and_factory.           *)
ProcessNode ==
    /\ pc = "run" /\ idx <= Len(queue)
    /\ LET node == queue[idx]
           st == [heap |-> heap, asets |-> asets]
       IN \E r \in {IF is_reference(heap[node])
                    THEN state_resolve_reference(st, names, nodes, node)
                    ELSE apply(st, node) @@ [nodes |-> nodes]} :
          /\ heap' = r.st.heap /\ asets' = r.st.asets /\ nodes' = r.nodes
          /\ err' = r.err
          /\ pc' = IF r.err # "" THEN "error" ELSE IF idx = Len(queue) THEN "done" ELSE "run"
          /\ idx' = IF r.err # "" THEN idx ELSE idx + 1
    /\ UNCHANGED <<data, root, names, order, dependencies, dependents, queue, call,
                   registries, type_system>>

(* FactorySystem.apply(node) called on a hand-made node: the node with     *)
(* type chains, or any of the nodes made for resolve_reference, where the  *)
(* caller catches the exception and goes on.                               *)
FactorySystem_apply ==
    /\ pc \in {"unit", "nodes"}
    /\ \E node \in IF pc = "unit" THEN {root} ELSE DOMAIN heap :
          \E r \in {apply([heap |-> heap, asets |-> asets], node)} :
          /\ heap' = r.st.heap /\ asets' = r.st.asets
          /\ err' = r.err
          /\ pc' = IF pc = "nodes" THEN "nodes"
                    ELSE IF r.err # "" THEN "error" ELSE "unit_done"
          /\ call' = IF pc = "nodes" THEN [node |-> node] ELSE call
    /\ UNCHANGED <<data, root, names, nodes, order, dependencies, dependents, queue, idx,
                   registries, type_system>>

(* self.resolve_reference(target_node) called on hand-made nodes.          *)
ResolutionNode_resolve_reference ==
    /\ pc = "nodes"
    /\ \E self \in DOMAIN heap, target_node \in DOMAIN heap :
          \E r \in {node_resolve_reference([heap |-> heap, asets |-> asets],
                                            self, target_node)} :
          /\ heap' = r.st.heap /\ asets' = r.st.asets
          /\ err' = r.err
          /\ pc' = IF r.err # "" THEN "error" ELSE "nodes_done"
          /\ call' = [self |-> self, target_node |-> target_node, result |-> r.id]
    /\ UNCHANGED <<data, root, names, nodes, order, dependencies, dependents, queue, idx,
                   registries, type_system>>

(* self.copy_with_update(update_node) called on hand-made nodes.           *)
ResolutionNode_copy_with_update ==
    /\ pc = "merge"
    /\ \E self \in DOMAIN heap, update_node \in DOMAIN heap :
          \E r \in {copy_with_update([heap |-> heap, asets |-> asets], self, update_node)} :
          /\ heap' = r.st.heap /\ asets' = r.st.asets
          /\ err' = r.err
          /\ pc' = IF r.err # "" THEN "error" ELSE "merge_done"
          /\ call' = [self |-> self, update_node |-> update_node, result |-> r.id]
    /\ UNCHANGED <<data, root, names, nodes, order, dependencies, dependents, queue, idx,
                   registries, type_system>>

(* The arguments tried on register: a class, a primitive, a dataclass, a   *)
(* container and a union; two type hints; every callable.                  *)
RegisterTypes == {T_Path, T_int, T_Sub, T_ListInt, T_OptSub}
RegisterHints == {T_str, T_int}

(* type_system.register(type_, type_hint, factory, reducer); an exception  *)
(* is caught by the caller, who may register again.                        *)
TypeSystem_register ==
    /\ pc = "types"
    /\ \E type_ \in RegisterTypes, hint \in RegisterHints,
          factory \in Classes, reducer \in Callables :
          \E r \in {register(registries[type_system], type_, hint, factory, reducer)} :
          /\ registries' = [registries EXCEPT ![type_system] = r.reg]
          /\ err' = r.err
          /\ call' = [type_ |-> type_, type_hint |-> hint,
                      factory |-> factory, reducer |-> reducer]
    /\ UNCHANGED <<pc, data, heap, asets, root, names, nodes, order,
                   dependencies, dependents, queue, idx, type_system>>

(* DependencyGraph(root) called on a hand-made tree.                       *)
DependencyGraph_init ==
    /\ pc = "tree"
    /\ \E g \in DependencyGraph(heap, root) :
          IF g.err # "" THEN
              /\ pc' = "error" /\ err' = g.err
              /\ UNCHANGED <<names, nodes, order, dependencies, dependents, queue>>
          ELSE
              /\ pc' = "graph" /\ err' = ""
              /\ names' = g.names /\ nodes' = g.nodes /\ order' = g.order
              /\ dependencies' = g.dependencies /\ dependents' = g.dependents
              /\ queue' = g.queue
    /\ UNCHANGED <<data, heap, asets, root, idx, call, registries, type_system>>

(* graph.set_node(path, node) called on the graph of a hand-made tree.     *)
DependencyGraph_set_node ==
    /\ pc = "graph"
    /\ \E path \in DOMAIN names \cup UnknownPaths, node \in DOMAIN heap :
          \E r \in {set_node([heap |-> heap, asets |-> asets], names, nodes, path, node)} :
          /\ heap' = r.st.heap /\ asets' = r.st.asets /\ nodes' = r.nodes
          /\ err' = r.err
          /\ pc' = IF r.err # "" THEN "error" ELSE "graph_done"
          /\ call' = [path |-> path, node |-> node]
    /\ UNCHANGED <<data, root, names, order, dependencies, dependents, queue, idx,
                   registries, type_system>>

Next ==
    \/ ResolutionState_init
    \/ ProcessNode
    \/ FactorySystem_apply
    \/ ResolutionNode_resolve_reference
    \/ DependencyGraph_init
    \/ TypeSystem_register
    \/ DependencyGraph_set_node
    \/ ResolutionNode_copy_with_update

Spec == Init /\ [][Next]_vars

(***************************************************************************)
(* Properties.                                                             *)
(***************************************************************************)
(* The nodes reachable from a node through content. *)
RECURSIVE TreeNodes(_, _)
TreeNodes(hp, id) ==
    {id} \cup UNION {TreeNodes(hp, Kids(hp[id])[i]) : i \in 1..Len(Kids(hp[id]))}

(* The state in which ResolutionState.__init__ has just returned. *)
JustBuilt == pc = "run" /\ idx = 1

(* C1: the queue computed for an accepted tree holds every collected node  *)
(* exactly once, every child strictly before its mapping or sequence, and  *)
(* the node named by a reference string strictly before the reference node.*)
C1_TopologicalOrder ==
    JustBuilt =>
        /\ Len(queue) = Cardinality(TreeNodes(heap, root))
        /\ \A id \in TreeNodes(heap, root) : \E i \in 1..Len(queue) : queue[i] = id
        /\ \A i \in 1..Len(queue) :
              LET n == heap[queue[i]] IN
              /\ \A c \in 1..Len(Kids(n)) : \E j \in 1..(i - 1) : queue[j] = Kids(n)[c]
              /\ is_reference(n) => \E j \in 1..(i - 1) : heap[queue[j]].name = n.reference

C1_Witness ==
    /\ JustBuilt
    /\ Len(queue) >= 6
    /\ \E i \in 1..Len(queue) : is_reference(heap[queue[i]]) /\ Kids(heap[queue[i]]) # <<>>

(* The reference markers of the raw input, read off the data itself: one   *)
(* record per position, with its name, its reference string (<<>> if none) *)
(* and the names of its children.                                          *)
RawReference(d) ==
    IF d.k = "str" /\ is_reference_format(d.v) THEN d.v
    ELSE IF d.k = "map" /\ HasKey(d.v, REFERENCE_KEY) THEN Lookup(d.v, REFERENCE_KEY).v
    ELSE <<>>

RawChildren(d, path) ==
    IF d.k = "map" THEN
        {<<Append(path, d.v[i][1]), d.v[i][2]>> :
            i \in {j \in 1..Len(d.v) : d.v[j][1] \notin Reserved}}
    ELSE IF d.k = "list" THEN {<<Append(path, SI(i - 1)), d.v[i]>> : i \in 1..Len(d.v)}
    ELSE {}

RECURSIVE RawNodes(_, _)
RawNodes(d, path) ==
    {[name |-> path_to_reference(path), ref |-> RawReference(d),
      kids |-> {path_to_reference(c[1]) : c \in RawChildren(d, path)}]}
    \cup UNION {RawNodes(c[2], c[1]) : c \in RawChildren(d, path)}

RawNames == {n.name : n \in RawNodes(data, <<>>)}

(* The names a position depends on: its children and its reference target. *)
RawSuccessors(name) ==
    UNION {n.kids \cup (IF n.ref = <<>> THEN {} ELSE {n.ref}) :
              n \in {m \in RawNodes(data, <<>>) : m.name = name}}

RECURSIVE RawReach(_)
RawReach(S) ==
    LET T == S \cup UNION {RawSuccessors(x) : x \in S}
    IN IF T = S THEN S ELSE RawReach(T)

(* The dependencies of the input form a cycle through a reference marker.  *)
RefCycle ==
    /\ data.k = "map"
    /\ \E n \in RawNodes(data, <<>>) : n.ref # <<>> /\ n.name \in RawReach({n.ref})

(* Some reference string starts with the name of the node that carries it. *)
OwnNameRef ==
    /\ data.k = "map"
    /\ \E n \in RawNodes(data, <<>>) : n.ref # <<>> /\ StartsWith(n.ref, n.name)

(* Some reference string names no position of the input.                   *)
MissingTarget ==
    /\ data.k = "map"
    /\ \E n \in RawNodes(data, <<>>) : n.ref # <<>> /\ n.ref \notin RawNames

NothingFactoried == \A id \in DOMAIN heap : heap[id].value = MISSING

(* Every node still holds the children build gave it: each child sits at   *)
(* its own path, and no node has gained an alias.                          *)
NothingReplaced ==
    /\ \A id \in DOMAIN heap :
          LET n == heap[id] IN
          \A c \in 1..Len(Kids(n)) :
              heap[Kids(n)[c]].path =
                  Append(n.path, IF n.ckind = "dict" THEN n.keys[c] ELSE SI(c - 1))
    /\ \A a \in DOMAIN asets : asets[a] = {}

RefusedAtConstruction == pc = "error" /\ queue = <<>> /\ idx = 0

(* C2 as stated: every cycle of reference markers, a self-reference        *)
(* included, makes the construction of the resolver fail with              *)
(* CircularReferenceError, nothing being factoried or replaced.            *)
C2_CycleAlwaysCircular ==
    (RefCycle /\ pc # "new") =>
        /\ RefusedAtConstruction
        /\ err = "CircularReferenceError"
        /\ NothingFactoried /\ NothingReplaced

(* C2 amended: a cycle of reference markers makes the construction of the  *)
(* resolver fail with nothing factoried or replaced; the error is          *)
(* ConfigReferenceError when some reference string starts with the name of *)
(* its own node or names no node, and CircularReferenceError otherwise.    *)
C2_CycleRefused ==
    (RefCycle /\ pc # "new") =>
        /\ RefusedAtConstruction
        /\ err = IF OwnNameRef \/ MissingTarget THEN "ConfigReferenceError"
                 ELSE "CircularReferenceError"
        /\ NothingFactoried /\ NothingReplaced

C2_Witness ==
    /\ RefCycle /\ pc = "error" /\ err = "CircularReferenceError"
    /\ Cardinality({id \in DOMAIN heap : is_reference(heap[id])}) >= 3

C3_AllResolved ==
    pc = "done" =>
        /\ \A id \in TreeNodes(heap, root) :
              /\ heap[id].value # MISSING
              /\ Len(heap[id].type_chains) <= 1
              /\ ~is_reference(heap[id])
        /\ \A i \in 1..Len(queue) :
              is_reference(heap[queue[i]]) => queue[i] \notin TreeNodes(heap, root)

C3_Witness ==
    /\ pc = "done"
    /\ \E i \in 1..Len(queue) : is_reference(heap[queue[i]]) /\ Kids(heap[queue[i]]) = <<>>
    /\ \E id \in TreeNodes(heap, root) :
          /\ heap[id].resolved # <<>>
          /\ \E i \in 1..Len(queue) :
                /\ heap[queue[i]].path = heap[id].path
                /\ Len(heap[queue[i]].type_chains) > 1

(* Kahn's algorithm with the ties broken by collection order: the nodes    *)
(* that become ready on one emission are enqueued as collected.            *)
RECURSIVE KahnInOrder(_, _, _)
KahnInOrder(q, processed, in_degree) ==
    IF q = <<>> THEN processed
    ELSE LET ds == dependents[Head(q)]
             deg == [x \in DOMAIN in_degree |->
                        IF x \in ds THEN in_degree[x] - 1 ELSE in_degree[x]]
         IN KahnInOrder(Tail(q) \o InOrder(order, {d \in ds : deg[d] = 0}),
                        Append(processed, Head(q)), deg)

CollectionOrderQueue ==
    LET in_degree == [x \in DOMAIN nodes |-> Cardinality(dependencies[x])]
    IN KahnInOrder(SelectSeq(order, LAMBDA x : in_degree[x] = 0), <<>>, in_degree)

(* C8: the queue is a function of the tree alone: it is the queue of       *)
(* Kahn's algorithm with every tie broken by collection order, so two runs *)
(* on one input produce the same queue.                                    *)
C8_QueueDeterministic ==
    JustBuilt => [i \in 1..Len(queue) |-> heap[queue[i]].name] = CollectionOrderQueue

(* The error types of the taxonomy.                                        *)
CoreErrors ==
    {"ConfigParseError", "ConfigReferenceError", "CircularReferenceError",
     "ConfigFactoryError", "TypeRegistrationError", "ConfigValidationError"}

(* C10: every failure of the core is one of the six error types of the     *)
(* taxonomy.                                                               *)
C10_ErrorTaxonomyClosed == err # "" => err \in CoreErrors

(* The indices of the concrete chains of a chain list that turn a value    *)
(* into a result.                                                          *)
Succeeding(value, cs) ==
    {i \in 1..Len(cs) : cs[i] # <<>> /\ Leaf(cs[i]) # T_Any
                        /\ apply_type_chain(value, cs[i]).err = ""}

(* What one call of FactorySystem.apply on a hand-made node must do.       *)
C9_Step ==
    (pc = "unit" /\ pc' # "unit") =>
        LET cs == heap[root].type_chains
            value == materialize(heap, root)
            concrete == {i \in 1..Len(cs) : cs[i] # <<>> /\ Leaf(cs[i]) # T_Any}
            anys == {i \in 1..Len(cs) : cs[i] # <<>> /\ Leaf(cs[i]) = T_Any}
            good == Succeeding(value, cs)
            after == heap'[root]
        IN /\ good # {} =>
                \E i \in good :
                    /\ \A j \in good : i <= j
                    /\ pc' = "unit_done"
                    /\ after.value = apply_type_chain(value, cs[i]).val
                    /\ after.type_chains = <<cs[i]>>
           /\ (good = {} /\ anys # {}) =>
                /\ pc' = "unit_done"
                /\ after.value = value
                /\ \E i \in anys : after.type_chains = <<cs[i]>>
           /\ (concrete # {} /\ good = {} /\ anys = {}) =>
                /\ pc' = "error" /\ err' = "ConfigFactoryError"
                /\ after.value = MISSING
                /\ after.type_chains = cs

(* C9: FactorySystem.apply keeps the first concrete chain, in list order,  *)
(* that succeeds and stores its result; it adopts an Any chain, passing    *)
(* the materialized value through, only when no concrete chain succeeded;  *)
(* when there are concrete chains, all of them fail and there is no Any    *)
(* chain, it raises ConfigFactoryError and leaves value and type_chains    *)
(* as they were.                                                           *)
C9_ChainSelection == [][C9_Step]_vars

C9_Witness ==
    /\ pc = "unit_done"
    /\ heap[root].prim = DStr(<<"1">>)
    /\ heap[root].value = DInt(1)
    /\ heap[root].type_chains = << <<TypeInfo(T_int)>> >>

(* The node the loop of _resolve_and_factory is about to process.          *)
Current == heap[queue[idx]]

(* The step processes a reference node and ends without an exception.      *)
ResolvesReference == pc = "run" /\ is_reference(Current) /\ pc' # "error"

(* rid is the mapping-on-mapping merge of the target tid with the override *)
(* uid: h0 is the heap before the step, h1 and a1 the heap and the alias   *)
(* sets after it.                                                          *)
RECURSIVE MergedMapping(_, _, _, _, _, _)
MergedMapping(h0, h1, a1, tid, uid, rid) ==
    LET t == h0[tid]
        u == h0[uid]
        m == h1[rid]
        tkeys == SeqToSet(t.keys) \ Reserved
        ukeys == SeqToSet(u.keys) \ Reserved
    IN /\ rid \notin DOMAIN h0
       /\ m.ckind = "dict"
       /\ SeqToSet(m.keys) = tkeys \cup ukeys
       /\ Len(m.keys) = Cardinality(tkeys \cup ukeys)
       /\ \A key \in tkeys \ ukeys :
             /\ Child(m, key) = Child(t, key)
             /\ path_to_reference(Append(u.path, key)) \in a1[h1[Child(t, key)].aliases]
       /\ \A key \in ukeys \ tkeys : Child(m, key) = Child(u, key)
       /\ \A key \in tkeys \cap ukeys :
             LET tk == h0[Child(t, key)]
                 uk == h0[Child(u, key)]
                 structural == uk.ckind = "dict" /\ SeqToSet(uk.keys) \ Reserved # {}
             IN IF structural /\ tk.ckind = "dict"
                    THEN MergedMapping(h0, h1, a1, Child(t, key), Child(u, key), Child(m, key))
                ELSE IF structural /\ tk.ckind = "list" THEN TRUE
                ELSE Child(m, key) = Child(u, key)

(* The record made from a merged mapping: the target-only fields keep the  *)
(* base's values, the others take those of the override's side.            *)
MergedRecord(h0, h1, tid, uid, rid) ==
    LET t == h0[tid]
        u == h0[uid]
        m == h1[rid]
    IN /\ m.value.k = "dc"
       /\ \A key \in SeqToSet(m.keys) :
             m.value.v.f[key.v] =
                 IF key \notin SeqToSet(u.keys) THEN t.value.v.f[key.v]
                 ELSE h1[Child(m, key)].value
       /\ \A key \in SeqToSet(u.keys) :
             h0[Child(u, key)].ckind = "prim" => m.value.v.f[key.v] = h0[Child(u, key)].value

C4_Step ==
    (/\ ResolvesReference
     /\ Current.ckind = "dict" /\ SeqToSet(Current.keys) \ Reserved # {}
     /\ heap[nodes[Current.reference]].ckind = "dict") =>
        /\ MergedMapping(heap, heap', asets', nodes[Current.reference], queue[idx],
                         nodes'[Current.name])
        /\ heap[nodes[Current.reference]].value.k = "dc" =>
               MergedRecord(heap, heap', nodes[Current.reference], queue[idx],
                            nodes'[Current.name])

(* C4: the merge of a mapping target with a mapping override that has a    *)
(* non-reserved key is a new node over the keys of both: a target-only key *)
(* holds the target's own child, which gains the alias of the override's   *)
(* path and the key, an override-only key holds the override's child, a    *)
(* common key holds the merge of the two children; in the record made of   *)
(* it the target-only fields keep the base's values and the overridden     *)
(* fields take the override's.                                             *)
C4_MappingMerge == [][C4_Step]_vars

C4_Witness ==
    /\ pc = "done"
    /\ \E id \in TreeNodes(heap, root) :
          LET m == heap[id] IN
          /\ m.resolved # <<>> /\ m.ckind = "dict" /\ m.value.k = "dc"
          /\ \E c \in 1..Len(m.kids) : heap[m.kids[c]].path # Append(m.path, m.keys[c])
          /\ \E c \in 1..Len(m.kids) :
                /\ heap[m.kids[c]].resolved # <<>>
                /\ heap[m.kids[c]].ckind = "dict"

C5_Step ==
    (ResolvesReference /\ Kids(Current) = <<>>) =>
        LET target == nodes[Current.reference] IN
        /\ nodes'[Current.name] = target
        /\ heap'[target] = heap[target]
        /\ asets'[heap[target].aliases] = asets[heap[target].aliases] \cup {Current.name}

(* C5: resolving a reference node that carries no structural override (a   *)
(* string, or a mapping with reserved keys only) yields the target node    *)
(* itself, with its content, value and type chains unchanged and the name  *)
(* of the reference node added to its aliases.                             *)
C5_BareReference == [][C5_Step]_vars

C5_Witness ==
    /\ pc \in {"run", "done"}
    /\ \E i \in 1..Len(queue) :
          LET n == heap[queue[i]] IN
          /\ is_reference(n) /\ n.ckind = "dict" /\ n.kids = <<>>
          /\ nodes[n.name] # queue[i]
          /\ n.name \in asets[heap[nodes[n.name]].aliases]

(* The scopes of the input and what each holds.                            *)
InputScopes == IF data.k = "map" THEN {data.v[i][1] : i \in 1..Len(data.v)} ELSE {}
ScopeData(sc) == Lookup(data.v, sc)

(* A scope without reference markers that has the required field.          *)
IsBase(d) ==
    /\ d.k = "map" /\ HasKey(d.v, K(F_n))
    /\ \A n \in RawNodes(d, <<>>) : n.ref = <<>>

(* A scope that refers to another scope, bare or with primitive overrides. *)
IsScopeReference(d) ==
    /\ \E sc \in InputScopes : RawReference(d) = Ref(sc)
    /\ d.k = "map" => \A i \in 1..Len(d.v) : d.v[i][2].k \in {"int", "str"}

TargetScope(d) == CHOOSE sc \in InputScopes : RawReference(d) = Ref(sc)

(* The overrides of a reference: its non-reserved items.                   *)
Overrides(d) == IF d.k = "map" THEN Strip(d.v) ELSE <<>>

(* Every scope is a base or a reference to a scope, and the references     *)
(* form no cycle: the input consists of chains of references.              *)
ChainInput ==
    /\ data.k = "map" /\ ~RefCycle
    /\ \A sc \in InputScopes : IsBase(ScopeData(sc)) \/ IsScopeReference(ScopeData(sc))
    /\ \E sc \in InputScopes : IsScopeReference(ScopeData(sc))

(* The node and the value a scope ends up with.                            *)
ScopeNode(sc) == Child(heap[root], sc)
ScopeValue(sc) == heap[root].value.v[sc]

ChainResolved ==
    \A sc \in InputScopes :
        LET d == ScopeData(sc)
            t == TargetScope(d)
            over == Overrides(d)
        IN IsScopeReference(d) =>
            /\ nodes[Ref(sc)] = ScopeNode(sc)
            /\ ScopeValue(sc) = heap[ScopeNode(sc)].value
            /\ over = <<>> => ScopeNode(sc) = ScopeNode(t)
            /\ over # <<>> =>
                /\ ScopeNode(sc) # ScopeNode(t)
                /\ heap[ScopeNode(sc)].resolved = Ref(t)
                /\ \A f \in FieldNames(T_Conf) :
                      ScopeValue(sc).v.f[f] =
                          IF HasKey(over, K(f)) THEN Lookup(over, K(f))
                          ELSE ScopeValue(t).v.f[f]

(* C6: on an input made of acyclic chains of references, processing the    *)
(* queue never fails and resolves each reference against the node that     *)
(* replaced its target in the name table: a bare reference becomes that    *)
(* very node, a reference with overrides becomes the merge of that node    *)
(* with its overrides.                                                     *)
C6_ReferenceChains ==
    (ChainInput /\ queue # <<>>) => (pc # "error" /\ (pc = "done" => ChainResolved))

(* scope2 = "::scope1", scope3 = {_reference_: "::scope2", n: ...}         *)
C6_Witness ==
    /\ pc = "done" /\ ChainInput
    /\ \E s2, s3 \in InputScopes :
          /\ IsScopeReference(ScopeData(s2)) /\ Overrides(ScopeData(s2)) = <<>>
          /\ IsBase(ScopeData(TargetScope(ScopeData(s2))))
          /\ IsScopeReference(ScopeData(s3)) /\ TargetScope(ScopeData(s3)) = s2
          /\ HasKey(Overrides(ScopeData(s3)), K(F_n))
          /\ ScopeValue(s3).v.f[F_n] # ScopeValue(s2).v.f[F_n]
          /\ ScopeValue(s3).v.f[F_v] = ScopeValue(s2).v.f[F_v]
          /\ ScopeValue(s2) = ScopeValue(TargetScope(ScopeData(s2)))

(* The call of resolve_reference on hand-made nodes made by this step. *)
CallsResolveReference == pc = "nodes" /\ pc' # "nodes"

(* C11: resolve_reference raises ConfigReferenceError, adds no alias and   *)
(* changes neither node, when the node is not a reference, or is already   *)
(* factoried, or the target's name and aliases do not contain the          *)
(* reference string, or the target is itself a reference.                  *)
C11_Step ==
    CallsResolveReference =>
        LET n == heap[call'.self]
            t == heap[call'.target_node]
        IN (\/ n.reference = <<>>
            \/ n.value # MISSING
            \/ (t.name # n.reference /\ n.reference \notin asets[t.aliases])
            \/ t.reference # <<>>)
           => (err' = "ConfigReferenceError" /\ heap' = heap /\ asets' = asets)

C11_ResolveReferenceRefusals == [][C11_Step]_vars

(* A refused call whose only fault is that the target does not carry the   *)
(* reference string.                                                       *)
C11_Witness ==
    /\ pc = "error" /\ call # <<>> /\ err = "ConfigReferenceError"
    /\ heap[call.self].reference # <<>> /\ heap[call.self].value = MISSING
    /\ heap[call.target_node].reference = <<>>
    /\ heap[call.target_node].name # heap[call.self].reference
    /\ heap[call.self].reference \notin asets[heap[call.target_node].aliases]

(* A step that constructs a DependencyGraph over a tree that exists. *)
ConstructsGraph == pc \in {"tree", "new"} /\ pc' # pc /\ root' # 0

OneToOne(f) == \A a, b \in DOMAIN f : f[a] = f[b] => a = b

(* C12: graph construction fails with ConfigParseError when two distinct   *)
(* node objects of the tree have one name, and not for a node object that  *)
(* is reachable through several parents, which is collected once; after a  *)
(* successful construction the name -> node table and the path -> name     *)
(* table are one-to-one and cover exactly the nodes of the tree.           *)
C12_Step ==
    ConstructsGraph =>
        LET T == TreeNodes(heap', root')
            Dup == \E i, j \in T : i # j /\ heap'[i].name = heap'[j].name
        IN /\ Dup => (pc' = "error" /\ err' = "ConfigParseError")
           /\ ~Dup => err' # "ConfigParseError"
           /\ (pc = "tree" /\ ~Dup) => pc' = "graph"
           /\ pc' \in {"graph", "run"} =>
                 /\ Len(order') = Cardinality(T)
                 /\ DOMAIN nodes' = {heap'[i].name : i \in T}
                 /\ DOMAIN names' = {heap'[i].path : i \in T}
                 /\ \A i \in T : /\ nodes'[heap'[i].name] = i
                                  /\ names'[heap'[i].path] = heap'[i].name
                 /\ OneToOne(nodes') /\ OneToOne(names')

C12_DuplicateNames == [][C12_Step]_vars

(* A graph built over a tree in which one leaf object sits under both     *)
(* mappings and under the top.                                            *)
C12_Witness ==
    /\ pc = "graph"
    /\ heap[5].kids = heap[6].kids /\ heap[TreeTop].kids[3] = heap[5].kids[1]
    /\ Len(order) = 4

(* C13: register stores the first registration of a type, accepts the     *)
(* same parameters again without changing the registry, refuses other      *)
(* parameters for a registered type with TypeRegistrationError and leaves  *)
(* the entry alone, and refuses primitives, dataclasses, containers and    *)
(* unions in every registry state.                                         *)
C13_Step ==
    (pc = "types" /\ call' # call) =>
        LET reg == registries[type_system]
            c == call'
            entry == [type_ |-> c.type_,
                      custom |-> CustomInfo(c.type_hint, c.factory, c.reducer)]
            refused == /\ err' = "TypeRegistrationError"
                       /\ registries' = registries
        IN IF c.type_.cat \in {"prim", "dc", "list", "dict", "union"} THEN refused
           ELSE IF c.type_ \notin DOMAIN reg THEN
               /\ err' = ""
               /\ registries'[type_system] = (c.type_ :> entry) @@ reg
           ELSE IF reg[c.type_] = entry THEN err' = "" /\ registries' = registries
           ELSE refused

C13_Register == [][C13_Step]_vars

(* C14: with a caller-made TypeSystem the tree ResolutionState builds,     *)
(* and the exception it raises, are those it would build with any other    *)
(* registry of the global TypeSystem.                                      *)
SameTree(b) ==
    /\ err' = b.err \/ (b.err = "" /\ pc' = "error" /\ root' # 0)
    /\ b.err = "" => heap' = b.st.heap /\ root' = b.id

C14_Step ==
    (pc = "new" /\ pc' # "new" /\ type_system = "local") =>
        \A g \in RegistryPool : SameTree(BuildRoot(data, registries["local"], g))

C14_LocalTypeSystem == [][C14_Step]_vars

(* C15: every non-root node of the tree ResolutionNode.build produces has  *)
(* at least one type chain (pruning that leaves no chain keeps the         *)
(* candidates).                                                            *)
C15_Step ==
    (pc = "new" /\ root' # 0) =>
        \A id \in DOMAIN heap' :
            heap'[id].path # <<>> => heap'[id].type_chains # <<>>

C15_TypeChainsNotEmpty == [][C15_Step]_vars

(* C16: set_node(path, new_node) with a path and a parent path the graph   *)
(* knows makes the parent's slot for the last path segment and the table   *)
(* entry of the path's name point to new_node and changes no other slot,   *)
(* no other table entry, no edge and not the queue; with a path the graph  *)
(* does not know it fails and changes nothing.  The property is stated for *)
(* the call made on a hand-made graph and for the call resolve_reference   *)
(* makes in a pipeline run.                                                *)
ParentPath(path) == SubSeq(path, 1, Len(path) - 1)

(* The parent after its slot for key is made to hold new_node; a mapping   *)
(* without the key gains it.                                               *)
WithSlot(n, key, new_node) ==
    IF n.ckind = "dict" THEN
        IF key \in SeqToSet(n.keys)
        THEN [n EXCEPT !.kids[IndexOf(n.keys, key)] = new_node]
        ELSE [n EXCEPT !.keys = Append(@, key), !.kids = Append(@, new_node)]
    ELSE [n EXCEPT !.kids[key.v + 1] = new_node]

GraphFrame ==
    /\ names' = names /\ order' = order /\ queue' = queue
    /\ dependencies' = dependencies /\ dependents' = dependents

SetNodeEffect(path, new_node) ==
    LET parent == nodes[names[ParentPath(path)]]
        expected == WithSlot(heap[parent], path[Len(path)], new_node)
    IN /\ nodes' = [nodes EXCEPT ![names[path]] = new_node]
       /\ heap'[parent].keys = expected.keys
       /\ heap'[parent].kids = expected.kids
       /\ heap'[parent].kids[IF heap[parent].ckind = "dict"
                             THEN IndexOf(expected.keys, path[Len(path)])
                             ELSE path[Len(path)].v + 1] = new_node
       /\ \A id \in DOMAIN heap \ {parent} :
             /\ heap'[id].keys = heap[id].keys
             /\ heap'[id].kids = heap[id].kids
       /\ \A id \in DOMAIN heap : heap'[id].ckind = heap[id].ckind
       /\ GraphFrame

CallsSetNode == pc = "graph" /\ pc' # "graph"

C16_Step ==
    /\ CallsSetNode =>
          IF call'.path \notin DOMAIN names THEN
              /\ err' = "KeyError"
              /\ heap' = heap /\ nodes' = nodes /\ GraphFrame
          ELSE ParentPath(call'.path) \in DOMAIN names =>
              /\ err' = ""
              /\ SetNodeEffect(call'.path, call'.node)
              /\ \A id \in DOMAIN heap \ {nodes[names[ParentPath(call'.path)]]} :
                    heap'[id] = heap[id]
    /\ ResolvesReference => SetNodeEffect(Current.path, nodes'[Current.name])

C16_SetNode == [][C16_Step]_vars

C16_Witness ==
    /\ pc = "graph_done"
    /\ root = ItemsTop
    /\ call.path = Append(Path_g, SI(1))
    /\ call.node = 3
    /\ heap[ItemsTop].kids = <<1, 3>>
    /\ nodes[path_to_reference(call.path)] = 3

(* C17: once a node has a value, no step changes its value or its type    *)
(* chains, and FactorySystem.apply on it returns without effect; the value *)
(* of a reference node is never set, and FactorySystem.apply on a          *)
(* reference node without a value raises ConfigFactoryError.               *)
AppliesFactoryTo(id) == pc = "nodes" /\ pc' = "nodes" /\ call' = [node |-> id]

C17_Step ==
    \A id \in DOMAIN heap :
        /\ is_factoried(heap[id]) =>
              /\ heap'[id].value = heap[id].value
              /\ heap'[id].type_chains = heap[id].type_chains
              /\ AppliesFactoryTo(id) => heap' = heap /\ asets' = asets /\ err' = ""
        /\ (is_reference(heap[id]) /\ ~is_factoried(heap[id])) =>
              /\ heap'[id].value = MISSING
              /\ AppliesFactoryTo(id) => heap' = heap /\ err' = "ConfigFactoryError"

C17_ValueAssignedOnce == [][C17_Step]_vars

C17_Witness ==
    /\ pc = "done"
    /\ \E id \in DOMAIN heap : is_reference(heap[id]) /\ heap[id].path = <<Scope_b>>
    /\ \E id \in DOMAIN heap : heap[id].value.k = "dc" /\ heap[id].path = <<Scope_a>>

(* What the dispatched queue entry depends on has been processed: its      *)
(* children are factoried and are not references, and so is the target of  *)
(* a reference node in the name table.                                     *)
Processed(n) == is_factoried(n) /\ ~is_reference(n)

Dispatches == pc = "run" /\ idx <= Len(queue)

ReadyAtDispatch ==
    /\ \A i \in DOMAIN Kids(Current) : Processed(heap[Kids(Current)[i]])
    /\ is_reference(Current) =>
          /\ Current.reference \in DOMAIN nodes
          /\ Processed(heap[nodes[Current.reference]])

(* The nodes FactorySystem.apply gave a value in the step. *)
FactoriedInStep ==
    {id \in DOMAIN heap' :
        /\ is_factoried(heap'[id])
        /\ id \in DOMAIN heap => ~is_factoried(heap[id])}

(* The node the step hands to FactorySystem.apply. *)
Applied == IF is_reference(Current) THEN nodes'[Current.name] ELSE queue[idx]

(* C18 as stated: FactorySystem.apply gives a value to no node but the one *)
(* it is called on, since every descendant is factoried already.           *)
C18_StepAsStated ==
    Dispatches =>
        /\ ReadyAtDispatch
        /\ \A id \in FactoriedInStep : id = Applied /\ ~is_reference(heap'[id])

C18_NoUnfactoriedDescendant == [][C18_StepAsStated]_vars

(* C18: at the dispatch of a queue entry its children are factoried and    *)
(* are not references, and so is the name table entry of the reference of  *)
(* a reference node; FactorySystem.apply meets no reference node, and the  *)
(* only unfactoried descendants it meets are nodes the override merge of   *)
(* the same step has made.                                                 *)
C18_Step ==
    Dispatches =>
        /\ ReadyAtDispatch
        /\ \A id \in FactoriedInStep :
              /\ ~is_reference(heap'[id])
              /\ id \in DOMAIN heap => id = queue[idx] /\ ~is_reference(Current)
              /\ id \notin DOMAIN heap => is_reference(Current)

C18_ReadyAtDispatch == [][C18_Step]_vars

C18_Witness ==
    /\ pc = "done"
    /\ \E i, j \in DOMAIN heap :
          /\ i # j
          /\ heap[i].path = <<Scope_b, K(F_s)>> /\ heap[j].path = heap[i].path
          /\ heap[i].ckind = "dict" /\ heap[j].ckind = "dict"
          /\ is_factoried(heap[i]) /\ is_factoried(heap[j])
          /\ heap[nodes[Ref(Scope_b)]].kids[IndexOf(heap[nodes[Ref(Scope_b)]].keys, K(F_s))] = j
          /\ i \in SeqToSet(queue) /\ j \notin SeqToSet(queue)

(* C19 as stated: resolve_reference refuses a target that is a reference   *)
(* and a target that has been factoried.                                   *)
C19_StepAsStated ==
    /\ CallsResolveReference =>
          ((heap[call'.target_node].reference # <<>>
                \/ heap[call'.target_node].value # MISSING)
             => err' = "ConfigReferenceError")
    /\ (Dispatches /\ Current.reference # <<>>) =>
          ((heap[nodes[Current.reference]].reference # <<>>
                \/ heap[nodes[Current.reference]].value # MISSING)
             => err' = "ConfigReferenceError")

C19_FactoriedTargetRefused == [][C19_StepAsStated]_vars

(* C19: resolve_reference refuses with ConfigReferenceError, and changes   *)
(* nothing, when the target is a reference or when the reference node has  *)
(* been factoried; a target that has been factoried is accepted: a         *)
(* reference without overrides resolves to it.                             *)
Bare(n) == n.ckind # "dict" \/ SeqToSet(n.keys) \subseteq Reserved

C19_Step ==
    CallsResolveReference =>
        LET n == heap[call'.self]
            t == heap[call'.target_node]
        IN /\ (t.reference # <<>> \/ n.value # MISSING) =>
                 (err' = "ConfigReferenceError" /\ heap' = heap /\ asets' = asets)
           /\ (/\ t.reference = <<>> /\ t.value # MISSING
               /\ n.reference # <<>> /\ n.value = MISSING
               /\ (t.name = n.reference \/ n.reference \in asets[t.aliases])
               /\ Bare(n)) =>
                 (err' = "" /\ call'.result = call'.target_node /\ heap' = heap)

C19_TargetRefusals == [][C19_Step]_vars

(* A call refused only because its target is a reference. *)
C19_Witness ==
    /\ pc = "error" /\ err = "ConfigReferenceError"
    /\ DOMAIN call = {"self", "target_node", "result"}
    /\ heap[call.target_node].reference # <<>>
    /\ heap[call.target_node].value = MISSING
    /\ heap[call.self].reference = heap[call.target_node].name
    /\ heap[call.self].value = MISSING

(* Scope b refers to scope a and overrides fields other than n, so that    *)
(* its field n is the child of a, known as "::b::n" once b is resolved;    *)
(* scope ab is the reference "::b::n".                                     *)
InheritedChildReference ==
    /\ data.k = "map" /\ InputScopes = {Scope_a, Scope_ab, Scope_b}
    /\ IsBase(ScopeData(Scope_a))
    /\ ScopeData(Scope_b).k = "map"
    /\ RawReference(ScopeData(Scope_b)) = Ref(Scope_a)
    /\ ~HasKey(ScopeData(Scope_b).v, K(F_n))
    /\ ScopeData(Scope_ab) = RefTo(<<Scope_b, K(F_n)>>)

(* C20: a reference string that is an alias of a live node, such as the    *)
(* name "::b::n" of a field that b inherits from its target, is accepted   *)
(* by the name lookup of the dependency graph and resolves to that node.   *)
C20_AliasAccepted ==
    InheritedChildReference =>
        /\ ~(RefusedAtConstruction /\ err = "ConfigReferenceError")
        /\ pc = "done" =>
              nodes[Ref(Scope_ab)] = nodes[path_to_reference(<<Scope_a, K(F_n)>>)]

(* The node a parent holds for a path segment. *)
Slot(n, key) == IF n.ckind = "dict" THEN Child(n, key) ELSE n.kids[key.v + 1]

(* The node found at a path after the step: the entry of the name table,   *)
(* which is also what the parent holds for the last segment.               *)
StoredAt(path) == nodes'[names[path]]

HeldByParent(path) ==
    Slot(heap'[nodes'[names[ParentPath(path)]]], path[Len(path)]) = StoredAt(path)

(* C21 as stated: the node stored at the position of a resolved reference  *)
(* has the path of the reference node and all its aliases, whether or not  *)
(* the reference carries overrides.                                        *)
C21_StepAsStated ==
    ResolvesReference =>
        /\ HeldByParent(Current.path)
        /\ heap'[StoredAt(Current.path)].path = Current.path
        /\ asets[Current.aliases] \subseteq asets'[heap'[StoredAt(Current.path)].aliases]

C21_SubstituteKeepsPath == [][C21_StepAsStated]_vars

C21_Step ==
    ResolvesReference =>
        /\ HeldByParent(Current.path)
        /\ asets[Current.aliases] \subseteq asets'[heap'[StoredAt(Current.path)].aliases]
        /\ ~Bare(Current) =>
              /\ heap'[StoredAt(Current.path)].path = Current.path
              /\ heap'[StoredAt(Current.path)].aliases = Current.aliases
        /\ Bare(Current) =>
              /\ StoredAt(Current.path) = nodes[Current.reference]
              /\ heap'[StoredAt(Current.path)].path = heap[nodes[Current.reference]].path
              /\ Current.name \in asets'[heap'[StoredAt(Current.path)].aliases]

(* C21: after ResolutionState.resolve_reference(node) the node stored at   *)
(* the original position, in the parent's content and in the name table    *)
(* under the original name, carries every alias the reference node had;    *)
(* for a reference with overrides its path is the reference node's path,   *)
(* for a bare reference it is the target itself, which keeps its own path  *)
(* and has the reference node's name among its aliases.                    *)
C21_SubstituteInherits == [][C21_Step]_vars

C21_Witness ==
    /\ pc = "done"
    /\ \E i \in 1..Len(queue) :
          LET n == heap[queue[i]] IN
          /\ is_reference(n) /\ ~Bare(n)
          /\ nodes[n.name] # queue[i]
          /\ heap[nodes[n.name]].path = n.path
          /\ heap[nodes[n.name]].aliases = n.aliases
          /\ heap[nodes[n.name]].resolved = n.reference

(* The positions of the raw input with their reference strings. *)
RECURSIVE RawMarkers(_, _)
RawMarkers(d, path) ==
    {[path |-> path, ref |-> RawReference(d),
      bare |-> d.k # "map" \/ \A i \in 1..Len(d.v) : d.v[i][1] \in Reserved]}
    \cup UNION {RawMarkers(c[2], c[1]) : c \in RawChildren(d, path)}

Markers == IF data.k = "map" THEN {m \in RawMarkers(data, <<>>) : m.ref # <<>>} ELSE {}

(* The reference string is the name of the node or of one of its ancestors. *)
RefersToSelfOrAbove(m) ==
    \E k \in 1..Len(m.path) : m.ref = path_to_reference(SubSeq(m.path, 1, k))

(* The reference string is the name of the node or continues it with       *)
(* further segments.                                                       *)
RefersToSelfOrBelow(m) ==
    \/ m.ref = path_to_reference(m.path)
    \/ StartsWith(m.ref, path_to_reference(m.path) \o REFERENCE_SEPARATOR)

(* ResolutionNode.build raised ConfigReferenceError: no tree, no graph.    *)
RefusedAtBuild ==
    /\ pc = "error" /\ err = "ConfigReferenceError"
    /\ heap = <<>> /\ root = 0 /\ nodes = <<>> /\ queue = <<>>

(* C22 as stated: a reference to the node itself or to one of its          *)
(* ancestors makes the construction of the node fail, before the graph.    *)
C22_PrefixOfOwnPathRefused ==
    (pc # "new" /\ \E m \in Markers : RefersToSelfOrAbove(m)) => RefusedAtBuild

(* C22: a reference whose string starts with the name of its own node, a   *)
(* reference to the node itself or to one of its descendants, makes        *)
(* ResolutionNode.build fail with ConfigReferenceError before the graph    *)
(* exists; a reference to a proper ancestor passes construction, the tree  *)
(* is built, and the construction of the graph refuses it.                 *)
C22_OwnNameRefused ==
    /\ (pc # "new" /\ \E m \in Markers : RefersToSelfOrBelow(m)) => RefusedAtBuild
    /\ (/\ pc # "new"
        /\ \E m \in Markers : RefersToSelfOrAbove(m)
        /\ \A m \in Markers : ~StartsWith(m.ref, path_to_reference(m.path))) =>
            /\ RefusedAtConstruction /\ heap # <<>> /\ root # 0
            /\ err \in {"CircularReferenceError", "ConfigReferenceError"}

C22_Witness ==
    /\ RefusedAtBuild
    /\ \E m \in Markers : RefersToSelfOrBelow(m) /\ m.ref # path_to_reference(m.path)
    /\ \A m \in Markers : RefersToSelfOrBelow(m) \/ m.ref \in RawNames

(* The step resolves a reference with overrides whose target is a sequence.*)
MergesOntoSequence ==
    /\ Dispatches /\ is_reference(Current) /\ ~Bare(Current)
    /\ Current.reference \in DOMAIN nodes
    /\ ~is_reference(heap[nodes[Current.reference]])
    /\ heap[nodes[Current.reference]].ckind = "list"

OverrideKeys(u) == SeqToSet(u.keys) \ Reserved

(* The override's child for position i, under the int or its decimal string.*)
Supplies(u, i) == SI(i) \in OverrideKeys(u) \/ SK(IntToStr(i)) \in OverrideKeys(u)
Supplied(u, i) == Child(u, IF SI(i) \in OverrideKeys(u) THEN SI(i) ELSE SK(IntToStr(i)))

MaxIndex(u) == MaxOf({IF key.k = "int" THEN key.v ELSE StrToInt(key.v) : key \in OverrideKeys(u)})

(* The override can be laid over a sequence of length n: every key is an   *)
(* index and every position from n to the largest index is supplied.       *)
FitsSequence(u, n) ==
    /\ \A key \in OverrideKeys(u) : key.k = "int" \/ IsDigitStr(key.v)
    /\ \A i \in n..MaxIndex(u) : Supplies(u, i)

C23_Step ==
    MergesOntoSequence =>
        LET t == heap[nodes[Current.reference]]
            u == Current
            n == Len(t.kids)
            rid == nodes'[Current.name]
            m == heap'[rid]
        IN IF FitsSequence(u, n) THEN
               pc' # "error" =>
                   /\ rid \notin DOMAIN heap
                   /\ m.ckind = "list"
                   /\ Len(m.kids) = IF MaxIndex(u) + 1 > n THEN MaxIndex(u) + 1 ELSE n
                   /\ \A i \in 0..(Len(m.kids) - 1) :
                         IF i < n /\ ~Supplies(u, i) THEN
                             /\ m.kids[i + 1] = t.kids[i + 1]
                             /\ path_to_reference(Append(u.path, SI(i)))
                                    \in asets'[heap'[t.kids[i + 1]].aliases]
                         ELSE IF i < n /\ ~Bare(heap[Supplied(u, i)]) THEN
                             m.kids[i + 1] \notin DOMAIN heap
                         ELSE m.kids[i + 1] = Supplied(u, i)
           ELSE /\ pc' = "error" /\ err' \in {"KeyError", "UnboundLocalError"}
                /\ DOMAIN heap' = DOMAIN heap
                /\ nodes' = nodes

(* C23: the merge of a sequence target with a mapping override whose keys  *)
(* are indices, ints or their decimal strings, is a new sequence: below    *)
(* the target's length a position the override supplies holds the merge of *)
(* the two nodes (the override's node when that is not itself a mapping    *)
(* with keys) and any other holds the target's own node, which gains the   *)
(* alias of the override's path and the index; the positions from the      *)
(* target's length to the largest index hold the override's nodes; the     *)
(* length is the larger of the target's length and the largest index plus  *)
(* one.  When a position of the extension is not supplied, or a key is not *)
(* an index, the step fails and no merged node is made.                    *)
C23_SequenceMerge == [][C23_Step]_vars

(* A sequence of two items merged with an override of the second item and  *)
(* of a third.                                                             *)
C23_Witness ==
    /\ pc = "done"
    /\ \E id \in TreeNodes(heap, root) :
          LET m == heap[id] IN
          /\ m.ckind = "list" /\ m.resolved # <<>>
          /\ Len(m.kids) = 2
          /\ heap[m.kids[1]].path[1] # m.path[1]
          /\ heap[m.kids[2]].path = Append(m.path, SI(1))
          /\ m.value = VList(<<DInt(1), DInt(5)>>)

(* The call of copy_with_update on hand-made nodes made by this step. *)
CallsCopyWithUpdate == pc = "merge" /\ pc' # "merge"

(* The override is a mapping with no key besides the reserved ones. *)
ReservedOnly(n) == n.ckind = "dict" /\ SeqToSet(n.keys) \subseteq Reserved

(* The call merges two mappings that both have key, and the override's     *)
(* child for key is a mapping with reserved keys only.                     *)
NestedReservedOnly(key) ==
    /\ CallsCopyWithUpdate /\ err' = ""
    /\ heap[call'.self].ckind = "dict" /\ heap[call'.update_node].ckind = "dict"
    /\ HasChild(heap[call'.self], key) /\ HasChild(heap[call'.update_node], key)
    /\ ReservedOnly(heap[Child(heap[call'.update_node], key)])

(* C24 as stated: an override with reserved keys only yields the target,   *)
(* at the top of copy_with_update and at a nested level of a merge.        *)
C24_StepAsStated ==
    /\ (CallsCopyWithUpdate /\ ReservedOnly(heap[call'.update_node])
            /\ ~is_reference(heap[call'.update_node])) =>
          (err' = "" /\ call'.result = call'.self)
    /\ NestedReservedOnly(K(F_n)) =>
          Child(heap'[call'.result], K(F_n)) = Child(heap[call'.self], K(F_n))

C24_ReservedOnlyYieldsTarget == [][C24_StepAsStated]_vars

C24_Step ==
    /\ (CallsCopyWithUpdate /\ ReservedOnly(heap[call'.update_node])) =>
          IF is_reference(heap[call'.update_node])
          THEN err' = "ConfigReferenceError" /\ heap' = heap /\ asets' = asets
          ELSE /\ err' = "" /\ call'.result = call'.update_node
               /\ heap' = heap /\ asets' = asets
    /\ NestedReservedOnly(K(F_n)) =>
          /\ call'.result \notin DOMAIN heap
          /\ Child(heap'[call'.result], K(F_n)) = Child(heap[call'.update_node], K(F_n))
          /\ asets' = asets

(* C24: in copy_with_update an override node whose content is a mapping    *)
(* with no key besides the reserved ones is itself the result, unchanged   *)
(* and without a new alias, unless it is a reference node, which is        *)
(* refused with ConfigReferenceError; met at a nested level of an          *)
(* override, the empty mapping takes the place of the target's content at  *)
(* that position in the merged result.                                     *)
C24_ReservedOnlyYieldsOverride == [][C24_Step]_vars

C24_Witness ==
    /\ pc = "merge_done"
    /\ heap[call.self].ckind = "dict" /\ heap[call.self].keys # <<>>
    /\ heap[Child(heap[call.self], K(F_n))].ckind = "dict"
    /\ heap[call.update_node].keys = <<K(F_n)>>
    /\ ReservedOnly(heap[Child(heap[call.update_node], K(F_n))])
    /\ call.result \notin {call.self, call.update_node}
    /\ Child(heap[call.result], K(F_n)) = Child(heap[call.update_node], K(F_n))

(* The positions of a tree: the path walked from the root through the      *)
(* content, and the node found there.                                      *)
RECURSIVE Positions(_, _, _)
Positions(hp, id, path) ==
    {[path |-> path, id |-> id]}
    \cup UNION {Positions(hp, Kids(hp[id])[i],
                          Append(path, IF hp[id].ckind = "dict" THEN hp[id].keys[i]
                                       ELSE SI(i - 1))) :
                   i \in 1..Len(Kids(hp[id]))}

(* C25: after a successful run the value at the position of a bare         *)
(* reference equals the value at the position its reference string names   *)
(* in the final tree.                                                      *)
C25_ReferentialConsistency ==
    pc = "done" =>
        \A m \in Markers : m.bare =>
            \A p, q \in Positions(heap, root, <<>>) :
                (p.path = m.path /\ path_to_reference(q.path) = m.ref) =>
                    heap[p.id].value = heap[q.id].value

(* Scope a is a base whose field s is a mapping with the required field n;  *)
(* scope b refers to a and overrides, inside s, fields other than n.        *)
PartialNestedOverride ==
    /\ data.k = "map" /\ InputScopes = {Scope_a, Scope_b}
    /\ IsBase(ScopeData(Scope_a))
    /\ HasKey(ScopeData(Scope_a).v, K(F_s))
    /\ Lookup(ScopeData(Scope_a).v, K(F_s)).k = "map"
    /\ HasKey(Lookup(ScopeData(Scope_a).v, K(F_s)).v, K(F_n))
    /\ ScopeData(Scope_b).k = "map"
    /\ RawReference(ScopeData(Scope_b)) = Ref(Scope_a)
    /\ DataKeys(ScopeData(Scope_b)) \ Reserved = {K(F_s)}
    /\ Lookup(ScopeData(Scope_b).v, K(F_s)).k = "map"
    /\ DataKeys(Lookup(ScopeData(Scope_b).v, K(F_s))) = {K(F_v)}

(* C26: a reference with overrides resolves when the merged content has    *)
(* every required field, although a nested override mapping taken alone    *)
(* lacks a required field that the target supplies.                        *)
C26_PartialOverrideResolves ==
    PartialNestedOverride => pc # "error"

(* The step resolves a reference with overrides, with or without success.  *)
MergesOverride ==
    /\ Dispatches /\ is_reference(Current) /\ ~Bare(Current)
    /\ Current.reference \in DOMAIN nodes

C27_Step ==
    MergesOverride =>
        /\ \A id \in TreeNodes(heap, nodes[Current.reference]) : heap'[id] = heap[id]
        /\ \A id \in DOMAIN heap : is_factoried(heap[id]) => heap'[id].value = heap[id].value
        /\ \A a \in DOMAIN asets : asets[a] \subseteq asets'[a]
        /\ \A name \in DOMAIN nodes \ {Current.name} : nodes'[name] = nodes[name]

(* C27: resolving a reference with overrides leaves its target as it was:  *)
(* the target and all its descendants keep their content, value, type      *)
(* chains and path, every node that had a value keeps it, every other      *)
(* entry of the name table stays, and alias sets only grow.                *)
C27_TargetUnchanged == [][C27_Step]_vars

(* Scope ab was resolved to the base itself before scope b overrode it:    *)
(* the base and ab hold the base's value, b another.                       *)
C27_Witness ==
    /\ pc = "done"
    /\ \E i, j \in 1..Len(queue) :
          /\ i < j
          /\ heap[queue[i]].path = <<Scope_ab>> /\ Bare(heap[queue[i]])
          /\ heap[queue[i]].reference = Ref(Scope_a)
          /\ heap[queue[j]].path = <<Scope_b>> /\ ~Bare(heap[queue[j]])
          /\ heap[queue[j]].reference = Ref(Scope_a)
    /\ nodes[Ref(Scope_ab)] = nodes[Ref(Scope_a)]
    /\ heap[nodes[Ref(Scope_b)]].value # heap[nodes[Ref(Scope_a)]].value
    /\ \E id \in TreeNodes(heap, nodes[Ref(Scope_a)]) : asets[heap[id].aliases] # {}

(* ResolutionState.resolve_reference raises in this step. *)
ResolveReferenceFails == Dispatches /\ is_reference(Current) /\ pc' = "error"

C28_Step ==
    ResolveReferenceFails =>
        /\ root' = root /\ nodes' = nodes
        /\ \A id \in DOMAIN heap :
              /\ heap'[id].ckind = heap[id].ckind /\ heap'[id].prim = heap[id].prim
              /\ heap'[id].keys = heap[id].keys /\ heap'[id].kids = heap[id].kids
              /\ heap'[id].value = heap[id].value
              /\ heap'[id].aliases = heap[id].aliases
        /\ \A a \in DOMAIN asets : asets'[a] = asets[a]

(* C28: a resolve_reference that fails, in the override merge or in the    *)
(* factory application of the merged node, leaves the tree, the name       *)
(* table and the content, value and alias set of every node that existed   *)
(* before the call as they were.                                           *)
C28_FailureChangesNothing == [][C28_Step]_vars

(* C29: the construction of a node refuses a well-formed reference only    *)
(* when it names the node itself or a path that extends the node's path by *)
(* further segments; a reference to another path, such as "::ab" carried   *)
(* by the node "::a", is accepted.                                         *)
C29_OnlyOwnPathRefused ==
    RefusedAtBuild => \E m \in Markers : RefersToSelfOrBelow(m)

(* The loop of _resolve_and_factory run to its end over a given queue:     *)
(* [err, st, nodes] when the queue is exhausted or an entry fails.         *)
RECURSIVE RunQueue(_, _, _, _, _)
RunQueue(st, g_names, g_nodes, q, i) ==
    IF i > Len(q) THEN [err |-> "", st |-> st, nodes |-> g_nodes]
    ELSE LET Rest(r) == IF r.err # "" THEN r
                        ELSE RunQueue(r.st, g_names, r.nodes, q, i + 1)
         IN Rest(IF is_reference(st.heap[q[i]])
                 THEN state_resolve_reference(st, g_names, g_nodes, q[i])
                 ELSE apply(st, q[i]) @@ [nodes |-> g_nodes])

(* What a run ends with: the error, and after a success the value at every *)
(* position of the tree.                                                   *)
Outcome(r) ==
    [err |-> r.err,
     values |-> IF r.err # "" THEN {}
                ELSE {[path |-> p.path, value |-> r.st.heap[p.id].value] :
                         p \in Positions(r.st.heap, root, <<>>)}]

OutcomeOf(q) == Outcome(RunQueue([heap |-> heap, asets |-> asets], names, nodes, q, 1))

(* The queues the construction of the graph can compute for the tree.      *)
Queues == {g.queue : g \in DependencyGraph(heap, root)}

(* The largest tree, in nodes, for which every topological order is tried. *)
MaxOrdered == 7

(* Every topological order of the dependency graph: at each step any node  *)
(* whose dependencies have all been emitted may come next.                 *)
RECURSIVE TopologicalOrders(_, _)
TopologicalOrders(done, seq) ==
    LET ready == {x \in DOMAIN nodes \ done : dependencies[x] \subseteq done}
    IN IF ready = {} THEN {seq}
       ELSE UNION {TopologicalOrders(done \cup {x}, Append(seq, nodes[x])) : x \in ready}

(* C30: whatever order the ties among ready nodes are broken in, the run   *)
(* over the queue ends with the same error or, after a success, the same   *)
(* value at every position of the tree: so for every queue the             *)
(* construction of the graph can compute and, for a tree of at most        *)
(* MaxOrdered nodes, for every topological order of its dependency graph.  *)
C30_Confluence ==
    JustBuilt =>
        /\ \A q \in Queues : OutcomeOf(q) = OutcomeOf(queue)
        /\ Len(queue) <= MaxOrdered =>
              \A q \in TopologicalOrders({}, <<>>) : OutcomeOf(q) = OutcomeOf(queue)

(* A tree with a reference that carries overrides, whose ties can be       *)
(* broken in more than one way and whose run succeeds.                     *)
C30_Witness ==
    /\ JustBuilt
    /\ Len(queue) <= MaxOrdered
    /\ Cardinality(Queues) >= 2
    /\ Cardinality(TopologicalOrders({}, <<>>)) > Cardinality(Queues)
    /\ OutcomeOf(queue).err = ""
    /\ \E i \in 1..Len(queue) : is_reference(heap[queue[i]]) /\ ~Bare(heap[queue[i]])

====
